---- MODULE Spec2Model ----
(***************************************************************************)
(* ActionableLogLines (ALLP): the beads adapter's line grammar, the        *)
(* adapter registry, and the query interpreter with its fallback.          *)
(*                                                                         *)
(* A JavaScript string is a sequence of one-character strings.  A          *)
(* JavaScript value that need not be a string is a record tagged by        *)
(* typeof: [t |-> "string", s |-> <<...>>], [t |-> "null"], ...            *)
(***************************************************************************)
EXTENDS Integers, Sequences, FiniteSets, TLC

VARIABLES
    rawLine,        \* argument of the last BeadsAdapter.parse call
    parsed,         \* what that call produced (a line, null, or a throw)
    cmdInput,       \* argument of the last parseCommand call
    cmdResult,      \* what that call returned
    adapters,       \* DefaultAdapterRegistry.adapters: the Map, in insertion order
    regLog,         \* every register call so far, in call order (history)
    regCall,        \* the last registry.parse call: its argument, what it
                    \* produced, the adapters whose parse it ran, in order,
                    \* and how many register calls preceded it
    fallbackConfig, \* the interpreter's module-level fallbackConfig
    configArg,      \* argument of the last configureClaudeFallback call (history)
    line,           \* the parsed line the caller holds and queries
    source0,        \* line.source as it was when the line was parsed (history)
    task,           \* the interpret call in flight, or the last one returned
    nlInput,        \* argument of the isNaturalLanguage calls
    nlFirst,        \* what the first of these calls returned (history)
    nlResult,       \* what the last of these calls returned
    expansion,      \* what getDefaultExpansion of the parsed line resolved with
    selectedLine,   \* AllpPanel.selectedLine, with the number of the message
                    \* that selected it as the object's identity
    inFlight,       \* the panel's interpret calls that have not returned
    posted,         \* the messages the panel has posted to the webview
    received,       \* how many messages the panel has received
    contextHeap,    \* the context objects BeadsAdapter.parse has created
    commandsHeap,   \* the command arrays createBeadsCommands has created
    held,           \* the lines a caller holds, in the order they were parsed
    runs,           \* what each handleQuery on a held line did (history)
    fileExists,     \* the project's log file exists
    fileLines,      \* its lines
    written,        \* how many non-blank lines were ever written to it
    fileOps,        \* how many times other processes changed the file
    watchers,       \* every watcher fs.watch has returned, open or closed
    registered,     \* the watcher of the project's entry in
                    \* MultiProjectWatcher.projects, 0 without an entry
    streams,        \* the read streams created and not yet read
    delivered,      \* the lines passed to panel.addLogLine, in order
    stopped,        \* stopAll was called and watchProjects was not since
    watchCalls      \* how many watchProjects and stopAll calls were made

vars == <<rawLine, parsed, cmdInput, cmdResult, adapters, regLog, regCall,
          fallbackConfig, configArg, line, source0, task, nlInput, nlFirst,
          nlResult, expansion, selectedLine, inFlight, posted, received,
          contextHeap, commandsHeap, held, runs, fileExists, fileLines,
          written, fileOps, watchers, registered, streams, delivered,
          stopped, watchCalls>>

parseVars == <<rawLine, parsed, expansion>>
cmdVars == <<cmdInput, cmdResult>>
regVars == <<adapters, regLog, regCall>>
interpVars == <<fallbackConfig, configArg, line, source0, task>>
nlVars == <<nlInput, nlFirst, nlResult>>
coreVars == <<parseVars, cmdVars, regVars, interpVars, nlVars>>

-----------------------------------------------------------------------------
(* Characters and the string primitives of the JavaScript runtime.         *)

Digits == {"0", "1", "2", "3", "4", "5", "6", "7", "8", "9"}

LowerCase == <<"a", "b", "c", "d", "e", "f", "g", "h", "i", "j", "k", "l", "m",
               "n", "o", "p", "q", "r", "s", "t", "u", "v", "w", "x", "y", "z">>

UpperCase == <<"A", "B", "C", "D", "E", "F", "G", "H", "I", "J", "K", "L", "M",
               "N", "O", "P", "Q", "R", "S", "T", "U", "V", "W", "X", "Y", "Z">>

Range(f) == {f[i] : i \in DOMAIN f}

\* \w of a regular expression
WordChars == Range(LowerCase) \cup Range(UpperCase) \cup Digits \cup {"_"}

\* \s of a regular expression, and what String.prototype.trim strips
WhiteSpace == {" ", "\t", "\n", "\r", "\f"}

\* the line terminators that . of a regular expression does not match
LineTerminators == {"\n", "\r"}

\* String.prototype.toLowerCase on one character
LowerChar(c) ==
    IF c \in Range(UpperCase)
    THEN LowerCase[CHOOSE i \in DOMAIN UpperCase : UpperCase[i] = c]
    ELSE c

\* String.prototype.toLowerCase
ToLowerCase(s) == [i \in DOMAIN s |-> LowerChar(s[i])]

RECURSIVE TrimStart(_)
TrimStart(s) ==
    IF s # <<>> /\ Head(s) \in WhiteSpace THEN TrimStart(Tail(s)) ELSE s

RECURSIVE TrimEnd(_)
TrimEnd(s) ==
    IF s # <<>> /\ s[Len(s)] \in WhiteSpace
    THEN TrimEnd(SubSeq(s, 1, Len(s) - 1))
    ELSE s

\* String.prototype.trim
Trim(s) == TrimEnd(TrimStart(s))

\* String.prototype.split(sep) for a one-character separator: always at
\* least one field, "" splits to [""]
RECURSIVE Split(_, _)
Split(s, sep) ==
    IF \A i \in DOMAIN s : s[i] # sep
    THEN <<s>>
    ELSE LET k == CHOOSE i \in DOMAIN s :
                      s[i] = sep /\ \A j \in 1..(i - 1) : s[j] # sep
         IN  <<SubSeq(s, 1, k - 1)>> \o Split(SubSeq(s, k + 1, Len(s)), sep)

\* Array.prototype.join(sep): [] joins to ""
RECURSIVE Join(_, _)
Join(parts, sep) ==
    IF parts = <<>> THEN <<>>
    ELSE IF Len(parts) = 1 THEN parts[1]
    ELSE parts[1] \o sep \o Join(Tail(parts), sep)

\* String.prototype.includes for a one-character needle
Includes(s, c) == \E i \in DOMAIN s : s[i] = c

\* JavaScript values
JsString(s) == [t |-> "string", s |-> s]
JsNull == [t |-> "null"]
JsUndefined == [t |-> "undefined"]
JsBoolean(b) == [t |-> "boolean", b |-> b]
JsNumber(n) == [t |-> "number", n |-> n]

\* ToBoolean: null, undefined, "", 0 are falsy; functions and objects are not
Truthy(v) ==
    CASE v.t = "string" -> v.s # <<>>
      [] v.t = "number" -> v.n # 0
      [] v.t \in {"function", "object"} -> TRUE
      [] OTHER -> FALSE

\* what a call produced: a value, or an exception
Returned(v) == [thrown |-> FALSE, value |-> v]
Thrown(msg) == [thrown |-> TRUE, message |-> msg]
NULL == [kind |-> "null"]

-----------------------------------------------------------------------------
(* The beads adapter: src/adapters/beads.ts                                *)

\* /^\d{4}-\d{2}-\d{2}T/ tested against the timestamp field
MatchesIsoPrefix(s) ==
    /\ Len(s) >= 11
    /\ \A i \in {1, 2, 3, 4, 6, 7, 9, 10} : s[i] \in Digits
    /\ s[5] = "-"
    /\ s[8] = "-"
    /\ s[11] = "T"

\* issueId || 'none', agentId || '': a || b on strings
OrElse(s, dflt) == IF s # <<>> THEN s ELSE dflt

NONE == <<"n", "o", "n", "e">>
BEADS == <<"b", "e", "a", "d", "s">>

\* EVENT_CATEGORIES: the description of each known category prefix
EventCategories ==
    <<[prefix |-> <<"e", "p">>, label |-> <<"E", "p", "o", "c", "h", " ", "(",
          "a", "p", "p", " ", "l", "i", "f", "e", "c", "y", "c", "l", "e",
          ")">>],
      [prefix |-> <<"s", "s">>, label |-> <<"S", "e", "s", "s", "i", "o", "n",
            " ", "(", "a", "g", "e", "n", "t", " ", "w", "o", "r", "k", "f",
            "l", "o", "w", "s", ")">>],
      [prefix |-> <<"s", "k">>, label |-> <<"S", "k", "i", "l", "l", " ", "(",
            "C", "l", "a", "u", "d", "e", " ", "s", "k", "i", "l", "l", " ",
            "a", "c", "t", "i", "v", "a", "t", "i", "o", "n", "s", ")">>],
      [prefix |-> <<"b", "d">>, label |-> <<"B", "e", "a", "d", "s", " ", "(",
            "i", "s", "s", "u", "e", " ", "o", "p", "e", "r", "a", "t", "i",
            "o", "n", "s", ")">>],
      [prefix |-> <<"g", "t">>, label |-> <<"G", "i", "t", " ", "(", "v", "e",
            "r", "s", "i", "o", "n", " ", "c", "o", "n", "t", "r", "o", "l",
            ")">>],
      [prefix |-> <<"h", "k">>, label |-> <<"H", "o", "o", "k", " ", "(", "g",
            "i", "t", " ", "h", "o", "o", "k", " ", "t", "r", "i", "g", "g",
            "e", "r", "s", ")">>],
      [prefix |-> <<"g", "d">>, label |-> <<"G", "u", "a", "r", "d", " ", "(",
            "e", "n", "f", "o", "r", "c", "e", "m", "e", "n", "t", ")">>]>>

\* parseEventCode: the part before the first '.', and the rest
ParseEventCode(eventCode) ==
    LET pieces == Split(eventCode, ".") IN
    [category |-> pieces[1], action |-> Join(Tail(pieces), <<".">>)]

\* createBeadsCommands: name, aliases and description of each command, in
\* list order; the handlers are HandlerRun
BeadsCommands ==
    <<[name |-> <<"s", "h", "o", "w">>, aliases |-> <<<<"s">>>>,
       description |-> <<"S", "h", "o", "w", " ", "i", "s", "s", "u", "e",
                         " ", "d", "e", "t", "a", "i", "l", "s">>],
      [name |-> <<"r", "e", "l", "a", "t", "e", "d">>, aliases |-> <<<<"r">>,
            <<"r", "e", "l">>>>,
       description |-> <<"S", "h", "o", "w", " ", "r", "e", "l", "a", "t",
                         "e", "d", " ", "e", "v", "e", "n", "t", "s">>],
      [name |-> <<"d", "e", "p", "s">>, aliases |-> <<<<"d">>, <<"d", "e",
            "p", "e", "n", "d", "e", "n", "c", "i", "e", "s">>>>,
       description |-> <<"S", "h", "o", "w", " ", "i", "s", "s", "u", "e",
                         " ", "d", "e", "p", "e", "n", "d", "e", "n", "c",
                         "i", "e", "s">>],
      [name |-> <<"c", "a", "t", "e", "g", "o", "r", "y">>,
            aliases |-> <<<<"c">>, <<"c", "a", "t">>>>,
       description |-> <<"F", "i", "l", "t", "e", "r", " ", "b", "y", " ",
                         "e", "v", "e", "n", "t", " ", "c", "a", "t", "e",
                         "g", "o", "r", "y">>],
      [name |-> <<"s", "e", "s", "s", "i", "o", "n">>, aliases |-> <<<<"s",
            "e", "s", "s">>>>,
       description |-> <<"S", "h", "o", "w", " ", "e", "v", "e", "n", "t",
                         "s", " ", "f", "r", "o", "m", " ", "t", "h", "i",
                         "s", " ", "s", "e", "s", "s", "i", "o", "n">>],
      [name |-> <<"b", "e", "f", "o", "r", "e">>, aliases |-> <<<<"b">>>>,
       description |-> <<"S", "h", "o", "w", " ", "e", "v", "e", "n", "t",
                         "s", " ", "b", "e", "f", "o", "r", "e", " ", "t",
                         "h", "i", "s", " ", "t", "i", "m", "e", "s", "t",
                         "a", "m", "p">>],
      [name |-> <<"a", "f", "t", "e", "r">>, aliases |-> <<<<"a">>>>,
       description |-> <<"S", "h", "o", "w", " ", "e", "v", "e", "n", "t",
                         "s", " ", "a", "f", "t", "e", "r", " ", "t", "h",
                         "i", "s", " ", "t", "i", "m", "e", "s", "t", "a",
                         "m", "p">>]>>

\* createActionableLogLine: the line's data fields and command list; the
\* handlers and the line's two behaviours are closures over source.context
\* (see HandlerRun, HandleQuery)
CreateActionableLogLine(raw, context) ==
    [kind |-> "line",
     timestamp |-> context.timestamp,
     message |-> context.eventCode,
     raw |-> raw,
     source |-> [type |-> BEADS,
                 id |-> OrElse(context.issueId, context.eventCode),
                 context |-> context],
     availableCommands |-> BeadsCommands]

\* a faulty variant of BeadsContext: ISSUE_ID kept as it came, without the 'none'
\* default
BeadsContextNoDefault(parts) ==
    [timestamp |-> parts[1],
     eventCode |-> parts[2],
     issueId |-> parts[3],
     agentId |-> OrElse(parts[4], <<>>),
     sessionId |-> OrElse(parts[5], <<>>),
     details |-> Join(SubSeq(parts, 6, Len(parts)), <<"|">>)]

\* a faulty variant of BeadsContext: details is the sixth field alone
BeadsContextSixthOnly(parts) ==
    [timestamp |-> parts[1],
     eventCode |-> parts[2],
     issueId |-> OrElse(parts[3], NONE),
     agentId |-> OrElse(parts[4], <<>>),
     sessionId |-> OrElse(parts[5], <<>>),
     details |-> IF Len(parts) >= 6 THEN parts[6] ELSE <<>>]

\* the context object BeadsAdapter.parse builds from the fields
BeadsContext(parts) ==
    [timestamp |-> parts[1],
     eventCode |-> parts[2],
     issueId |-> OrElse(parts[3], NONE),
     agentId |-> OrElse(parts[4], <<>>),
     sessionId |-> OrElse(parts[5], <<>>),
     details |-> Join(SubSeq(parts, 6, Len(parts)), <<"|">>)]

\* BeadsAdapter.parse from the split on: the field count, the timestamp and
\* the event code are checked in this order
ParseString(s) ==
    LET parts == Split(s, "|") IN
    IF Len(parts) < 5 THEN Returned(NULL)
    ELSE IF parts[1] = <<>> \/ ~MatchesIsoPrefix(parts[1]) THEN Returned(NULL)
    ELSE IF parts[2] = <<>> \/ ~Includes(parts[2], ".") THEN Returned(NULL)
    ELSE Returned(CreateActionableLogLine(s, BeadsContext(parts)))

\* a faulty variant of BeadsAdapterParse: no defensive check, so split is called on
\* whatever came in and a non-string has no such method
BeadsAdapterParseNoGuard(v) ==
    IF v.t = "string" THEN ParseString(v.s)
    ELSE Thrown(<<"T", "y", "p", "e", "E", "r", "r", "o", "r">>)

\* BeadsAdapter.parse
BeadsAdapterParse(v) ==
    IF ~Truthy(v) \/ v.t # "string" THEN Returned(NULL)
    ELSE ParseString(v.s)

-----------------------------------------------------------------------------
(* Inputs of BeadsAdapter.parse: lines of 1 .. 5 + MaxDetailParts fields,  *)
(* each field drawn from candidates that pass and that fail each rule.     *)

MaxDetailParts == 2

TimestampFields ==
    {<<"2", "0", "2", "5", "-", "0", "1", "-", "1", "5", "T">>,
     <<"2", "0", "2", "5", "-", "0", "1", "-", "1", "5", "T", "9", "Z">>,
     <<"2", "0", "2", "5", "-", "0", "1", "-", "1", "5">>,
     <<"2", "0", "2", "5", "-", "1", "-", "1", "5", "T", "0">>,
     <<" ", "2", "0", "2", "5", "-", "0", "1", "-", "1", "5", "T">>,
     <<"x", ".", "y">>,
     <<" ">>,
     <<>>}

EventCodeFields ==
    {<<"b", "d", ".", "x">>, <<"z", ".", "a", ".", "b">>, <<".">>,
     <<"c", "o", "n", "s", "t", "r", "u", "c", "t", "o", "r", ".", "x">>,
     <<"b", "d">>, <<>>}

IssueIdFields == {<<"b", "d", "-", "1">>, NONE, <<>>}

AgentIdFields == {<<"s", "t">>, <<>>}

SessionIdFields == {<<"s", "1">>, <<>>}

DetailFields == {<<"k", "=", "v">>, <<>>}

FieldChoices(k) ==
    CASE k = 1 -> TimestampFields
      [] k = 2 -> EventCodeFields
      [] k = 3 -> IssueIdFields
      [] k = 4 -> AgentIdFields
      [] k = 5 -> SessionIdFields
      [] OTHER -> DetailFields

RECURSIVE FieldListsOf(_)
FieldListsOf(n) ==
    IF n = 0 THEN {<<>>}
    ELSE {Append(fs, f) : fs \in FieldListsOf(n - 1), f \in FieldChoices(n)}

RawStrings ==
    {Join(fs, <<"|">>) :
        fs \in UNION {FieldListsOf(n) : n \in 1..(5 + MaxDetailParts)}}

\* what a caller can hand to parse: a string, or (through a cast) no string
RawLines ==
    {JsString(s) : s \in RawStrings}
        \cup {JsNull, JsUndefined, JsNumber(0), JsNumber(5)}

NotCalled == [thrown |-> FALSE, value |-> [kind |-> "none"]]

\* no call of BeadsAdapter.parse is under study
ParseIdle ==
    /\ rawLine = JsNull
    /\ parsed = NotCalled
    /\ expansion = NotCalled

\* a caller is about to call BeadsAdapter.parse on any of the inputs
ParseInputs ==
    /\ rawLine \in RawLines
    /\ parsed = NotCalled
    /\ expansion = NotCalled

\* BeadsAdapter.parse(rawLine) runs
CallBeadsParse ==
    /\ parsed = NotCalled
    /\ parsed' = BeadsAdapterParse(rawLine)
    /\ UNCHANGED <<rawLine, expansion>>

-----------------------------------------------------------------------------
(* parseCommand: src/interpreter.ts                                        *)

AllIn(s, from, to, chars) == \A i \in from..to : s[i] \in chars

\* the ways /^(\w+)(?:\s+(.*))?$/ can match s: <<i, j>> with \w+ = s[1..i] and
\* either the optional group absent (j = 0, so the word must end the string)
\* or \s+ = s[i+1..j] and (.*) = s[j+1..], which . must match to the end
CommandMatches(s) ==
    {m \in (1..Len(s)) \X (0..Len(s)) :
        /\ AllIn(s, 1, m[1], WordChars)
        /\ \/ m[2] = 0 /\ m[1] = Len(s)
           \/ /\ m[2] > m[1]
              /\ AllIn(s, m[1] + 1, m[2], WhiteSpace)
              /\ \A k \in (m[2] + 1)..Len(s) : s[k] \notin LineTerminators}

\* the match the backtracking matcher finds first: \w+ and \s+ are greedy,
\* and the optional group is tried before it is skipped
FirstCommandMatch(s) ==
    CHOOSE m \in CommandMatches(s) :
        \A o \in CommandMatches(s) :
            \/ m[1] > o[1]
            \/ m[1] = o[1] /\ m[2] >= o[2]

\* a faulty variant of ParseCommand: the whole input lower-cased before it is
\* matched, as the line's handleQuery does
ParseCommandLowersAll(input) ==
    LET trimmed == ToLowerCase(Trim(input)) IN
    IF trimmed = <<>> THEN NULL
    ELSE IF CommandMatches(trimmed) = {} THEN NULL
    ELSE LET m == FirstCommandMatch(trimmed) IN
         [kind |-> "command",
          command |-> SubSeq(trimmed, 1, m[1]),
          params |-> IF m[2] = 0 THEN <<>>
                     ELSE OrElse(Trim(SubSeq(trimmed, m[2] + 1, Len(trimmed))),
                                 <<>>)]

\* a faulty variant of ParseCommand: the input matched without being trimmed first
ParseCommandUntrimmed(input) ==
    IF Trim(input) = <<>> THEN NULL
    ELSE IF CommandMatches(input) = {} THEN NULL
    ELSE LET m == FirstCommandMatch(input) IN
         [kind |-> "command",
          command |-> ToLowerCase(SubSeq(input, 1, m[1])),
          params |-> IF m[2] = 0 THEN <<>>
                     ELSE Trim(SubSeq(input, m[2] + 1, Len(input)))]

\* parseCommand; match[2]?.trim() || '' is '' when the group did not take part
ParseCommand(input) ==
    LET trimmed == Trim(input) IN
    IF trimmed = <<>> THEN NULL
    ELSE IF CommandMatches(trimmed) = {} THEN NULL
    ELSE LET m == FirstCommandMatch(trimmed) IN
         [kind |-> "command",
          command |-> ToLowerCase(SubSeq(trimmed, 1, m[1])),
          params |-> IF m[2] = 0 THEN <<>>
                     ELSE OrElse(Trim(SubSeq(trimmed, m[2] + 1, Len(trimmed))),
                                 <<>>)]

\* Inputs of parseCommand: every string of at most MaxInputLen characters over
\* an upper-case letter, a lower-case letter, two kinds of white space (one a
\* line terminator) and a character that is neither \w nor \s.
MaxInputLen == 5

InputChars == {"S", "h", " ", "\n", "-"}

CommandInputs == UNION {[1..n -> InputChars] : n \in 0..MaxInputLen}

\* no call of parseCommand is under study
CmdIdle ==
    /\ cmdInput = <<>>
    /\ cmdResult = NotCalled

\* a caller is about to call parseCommand on any of the inputs
CmdInputs ==
    /\ cmdInput \in CommandInputs
    /\ cmdResult = NotCalled

\* parseCommand(cmdInput) runs
CallParseCommand ==
    /\ cmdResult = NotCalled
    /\ cmdResult' = Returned(ParseCommand(cmdInput))
    /\ UNCHANGED cmdInput

-----------------------------------------------------------------------------
(* The adapter registry: src/adapters/index.ts                             *)

\* String.prototype.startsWith
StartsWith(s, prefix) ==
    Len(s) >= Len(prefix) /\ SubSeq(s, 1, Len(prefix)) = prefix

TYPE_ERROR == <<"T", "y", "p", "e", "E", "r", "r", "o", "r">>
TEST_ID == <<"t", "e", "s", "t", "-", "i", "d">>

\* the parse of an adapter made by the tests' createTestAdapter(type, prefix);
\* rawLine.startsWith is no method of a value that is no string
TestAdapterParse(a, v) ==
    IF v.t # "string" THEN Thrown(TYPE_ERROR)
    ELSE IF ~StartsWith(v.s, a.prefix) THEN Returned(NULL)
    ELSE Returned([kind |-> "line",
                   timestamp |-> <<"n", "o", "w">>,
                   message |-> SubSeq(v.s, Len(a.prefix) + 1, Len(v.s)),
                   raw |-> v.s,
                   source |-> [type |-> a.type,
                               id |-> TEST_ID,
                               context |-> [prefix |-> a.prefix]]])

\* adapter.parse(rawLine), by the adapter's implementation
AdapterParse(a, v) ==
    CASE a.impl = "beads" -> BeadsAdapterParse(v)
      [] a.impl = "prefix" -> TestAdapterParse(a, v)
      [] a.impl = "throwing" ->
            Thrown(<<"P", "a", "r", "s", "e", " ", "e", "x", "p", "l", "o",
                     "s", "i", "o", "n">>)

\* The adapter objects a caller may register.  Each has its own identity
\* (name); alpha1 and alpha2 share a type, and alpha1, alpha2 and beta all
\* accept the line "A:m".
BeadsAdapter == [name |-> "BeadsAdapter", type |-> BEADS, impl |-> "beads"]

SourceAdapters ==
    {BeadsAdapter,
     [name |-> "alpha1", type |-> <<"a", "l", "p", "h", "a">>,
      impl |-> "prefix", prefix |-> <<"A", ":">>],
     [name |-> "alpha2", type |-> <<"a", "l", "p", "h", "a">>,
      impl |-> "prefix", prefix |-> <<"A">>],
     [name |-> "beta", type |-> <<"b", "e", "t", "a">>,
      impl |-> "prefix", prefix |-> <<"A", ":">>],
     [name |-> "throwing", type |-> <<"t", "h", "r", "o", "w", "i", "n", "g">>,
      impl |-> "throwing"]}

\* Map.prototype.has
MapHas(m, key) == \E i \in DOMAIN m : m[i].type = key

\* a faulty variant of MapSet: the entry appended even when the key is present (an
\* array push in place of a Map)
MapSetAppend(m, a) == Append(m, a)

\* a faulty variant of MapSet: a present key is deleted first, so the new entry
\* goes to the end of the iteration order
MapSetMoveToEnd(m, a) ==
    Append(SelectSeq(m, LAMBDA e : e.type # a.type), a)

\* Map.prototype.set: a present key keeps its place in the iteration order and
\* takes the new value, an absent key goes to the end
MapSet(m, a) ==
    IF MapHas(m, a.type)
    THEN [i \in DOMAIN m |-> IF m[i].type = a.type THEN a ELSE m[i]]
    ELSE Append(m, a)

UndefinedAdapter == [name |-> "undefined"]

\* DefaultAdapterRegistry.get: the adapter stored under the type, or undefined
RegistryGet(m, type) ==
    IF MapHas(m, type)
    THEN m[CHOOSE i \in DOMAIN m : m[i].type = type]
    ELSE UndefinedAdapter

\* DefaultAdapterRegistry.types: the keys in iteration order
RegistryTypes(m) == [i \in DOMAIN m |-> m[i].type]

\* the loop of DefaultAdapterRegistry.parse over adapters.values(): the first
\* truthy result is returned, an exception leaves the loop and the call
RECURSIVE ParseLoop(_, _, _)
ParseLoop(m, v, tried) ==
    IF m = <<>> THEN [result |-> Returned(NULL), invoked |-> tried]
    ELSE LET r == AdapterParse(Head(m), v)
             now == Append(tried, Head(m).name)
         IN  IF r.thrown THEN [result |-> r, invoked |-> now]
             ELSE IF r.value # NULL THEN [result |-> r, invoked |-> now]
             ELSE ParseLoop(Tail(m), v, now)

\* a loop that remembers the match and goes on, so the last match is returned
RECURSIVE ParseLoopLast(_, _, _, _)
ParseLoopLast(m, v, tried, found) ==
    IF m = <<>> THEN [result |-> found, invoked |-> tried]
    ELSE LET r == AdapterParse(Head(m), v)
             now == Append(tried, Head(m).name)
         IN  IF r.thrown THEN [result |-> r, invoked |-> now]
             ELSE IF r.value # NULL THEN ParseLoopLast(Tail(m), v, now, r)
             ELSE ParseLoopLast(Tail(m), v, now, found)

\* a faulty variant of RegistryParse: no early return from the loop
RegistryParseLastMatch(m, v) == ParseLoopLast(m, v, <<>>, Returned(NULL))

\* a loop that catches what an adapter throws and goes on to the next adapter
RECURSIVE ParseLoopCatching(_, _, _)
ParseLoopCatching(m, v, tried) ==
    IF m = <<>> THEN [result |-> Returned(NULL), invoked |-> tried]
    ELSE LET r == AdapterParse(Head(m), v)
             now == Append(tried, Head(m).name)
         IN  IF ~r.thrown /\ r.value # NULL THEN [result |-> r, invoked |-> now]
             ELSE ParseLoopCatching(Tail(m), v, now)

\* a faulty variant of RegistryParse: exceptions of adapters are caught
RegistryParseCatching(m, v) == ParseLoopCatching(m, v, <<>>)

\* DefaultAdapterRegistry.parse
RegistryParse(m, v) == ParseLoop(m, v, <<>>)

MaxRegisterCalls == 3

VALID_LINE ==
    <<"2", "0", "2", "5", "-", "0", "1", "-", "1", "5", "T", "|",
      "b", "d", ".", "x", "|", "b", "d", "-", "1", "|", "s", "t", "|", "s", "1">>

RegistryLines ==
    {JsString(<<"A", ":", "m">>), JsString(<<"B", ":", "m">>),
     JsString(VALID_LINE), JsString(<<"b", "d", ".", "x", "|", "|", "|", "|">>),
     JsNull}

RegInit ==
    /\ adapters = <<>>
    /\ regLog = <<>>
    /\ regCall = [line |-> JsNull, result |-> NotCalled, invoked |-> <<>>,
                  at |-> 0]

\* registry.register(a); the console.warn on a present type changes no state
RegisterOf(choices) ==
    \E a \in choices :
        /\ Len(regLog) < MaxRegisterCalls
        /\ adapters' = MapSet(adapters, a)
        /\ regLog' = Append(regLog, a)
        /\ UNCHANGED regCall

\* a caller registers any of the adapters
Register == RegisterOf(SourceAdapters)

\* registry.parse(v)
CallRegistryParseOf(choices) ==
    \E v \in choices :
        LET r == RegistryParse(adapters, v) IN
        /\ regCall' = [line |-> v, result |-> r.result, invoked |-> r.invoked,
                       at |-> Len(regLog)]
        /\ UNCHANGED <<adapters, regLog>>

\* a caller has the registry parse any of the lines
CallRegistryParse == CallRegistryParseOf(RegistryLines)

-----------------------------------------------------------------------------
(* The line's handleQuery and its command handlers: src/adapters/beads.ts  *)

\* String.prototype.split(/\s+/): the pieces between runs of white space
RECURSIVE SplitWs(_)
SplitWs(s) ==
    IF \A i \in DOMAIN s : s[i] \notin WhiteSpace
    THEN <<s>>
    ELSE LET k == CHOOSE i \in DOMAIN s :
                      s[i] \in WhiteSpace
                          /\ \A j \in 1..(i - 1) : s[j] \notin WhiteSpace
         IN  <<SubSeq(s, 1, k - 1)>>
                 \o SplitWs(TrimStart(SubSeq(s, k, Len(s))))

\* a QueryResult without and with its optional error
Result(handled, content) == [handled |-> handled, content |-> content]
ErrorResult(handled, content, error) ==
    [handled |-> handled, content |-> content, error |-> error]

\* What a handler does up to its first suspension: it either returns at once
\* (`now`) or starts the external process `bd <args>` and awaits it; `context`
\* is the context object as the handler leaves it.
Immediately(content, context) ==
    [exec |-> FALSE, now |-> Result(TRUE, content), context |-> context]
Awaiting(args, context) ==
    [exec |-> TRUE, args |-> args, context |-> context]

\* a faulty variant of NoIssue: the sentinel 'none' is not recognised
NoIssueOnlyWhenEmpty(context) == context.issueId = <<>>

\* !context.issueId || context.issueId === 'none'
NoIssue(context) == context.issueId = <<>> \/ context.issueId = NONE

\* the handler of show
ShowHandler(context, params) ==
    IF NoIssue(context)
    THEN Immediately(<<"N", "o", " ", "i", "s", "s", "u", "e", " ", "a",
                       "s", "s", "o", "c", "i", "a", "t", "e", "d", " ",
                       "w", "i", "t", "h", " ", "t", "h", "i", "s", " ",
                       "e", "v", "e", "n", "t">>, context)
    ELSE Awaiting(<<"s", "h", "o", "w", " ">> \o context.issueId, context)

\* the handler of related: by issue, else by the event's category
RelatedHandler(context, params) ==
    IF ~NoIssue(context)
    THEN Awaiting(<<"l", "o", "g", " ", "-", "-", "i", "s", "s", "u", "e",
                    " ">> \o context.issueId, context)
    ELSE Awaiting(<<"l", "o", "g", " ", "-", "-", "c", "a", "t", "e", "g",
                    "o", "r", "y", " ">>
                      \o ParseEventCode(context.eventCode).category
                      \o <<" ", "-", "-", "l", "a", "s", "t", " ", "2",
                           "0">>, context)

\* the handler of deps
DepsHandler(context, params) ==
    IF NoIssue(context)
    THEN Immediately(<<"N", "o", " ", "i", "s", "s", "u", "e", " ", "a",
                       "s", "s", "o", "c", "i", "a", "t", "e", "d", " ",
                       "w", "i", "t", "h", " ", "t", "h", "i", "s", " ",
                       "e", "v", "e", "n", "t">>, context)
    ELSE Awaiting(<<"s", "h", "o", "w", " ">> \o context.issueId, context)

\* a faulty variant of CategoryHandler: the category filtered by is kept in the
\* context object (context.category = cat)
CategoryHandlerStoresCategory(context, params) ==
    LET cat == OrElse(params, ParseEventCode(context.eventCode).category) IN
    Awaiting(<<"l", "o", "g", " ", "-", "-", "c", "a", "t", "e", "g", "o",
               "r", "y", " ">> \o cat \o <<" ", "-", "-", "l", "a", "s", "t",
                     " ", "3", "0">>,
             [k \in DOMAIN context \cup {"category"} |->
                 IF k = "category" THEN cat ELSE context[k]])

\* the handler of category: params || the event's category
CategoryHandler(context, params) ==
    LET cat == OrElse(params, ParseEventCode(context.eventCode).category) IN
    Awaiting(<<"l", "o", "g", " ", "-", "-", "c", "a", "t", "e", "g", "o",
               "r", "y", " ">> \o cat \o <<" ", "-", "-", "l", "a", "s", "t",
                     " ", "3", "0">>, context)

\* the handler of session
SessionHandler(context, params) ==
    IF context.sessionId = <<>>
    THEN Immediately(<<"N", "o", " ", "s", "e", "s", "s", "i", "o", "n",
                       " ", "I", "D", " ", "a", "v", "a", "i", "l", "a",
                       "b", "l", "e">>, context)
    ELSE Awaiting(<<"l", "o", "g", " ", "-", "-", "s", "e", "s", "s", "i",
                    "o", "n", " ">> \o context.sessionId, context)

\* the handler of before
BeforeHandler(context, params) ==
    Awaiting(<<"l", "o", "g", " ", "-", "-", "u", "n", "t", "i", "l", " ">>
          \o context.timestamp \o <<" ", "-", "-", "l", "a", "s", "t", " ",
          "2", "0">>, context)

\* the handler of after
AfterHandler(context, params) ==
    Awaiting(<<"l", "o", "g", " ", "-", "-", "s", "i", "n", "c", "e", " ">>
          \o context.timestamp \o <<" ", "-", "-", "l", "a", "s", "t", " ",
          "2", "0">>, context)

\* cmd.handler(params) for the command `name` of a beads line
HandlerRun(name, context, params) ==
    CASE name = <<"s", "h", "o", "w">> ->
            ShowHandler(context, params)
      [] name = <<"r", "e", "l", "a", "t", "e", "d">> ->
            RelatedHandler(context, params)
      [] name = <<"d", "e", "p", "s">> ->
            DepsHandler(context, params)
      [] name = <<"c", "a", "t", "e", "g", "o", "r", "y">> ->
            CategoryHandler(context, params)
      [] name = <<"s", "e", "s", "s", "i", "o", "n">> ->
            SessionHandler(context, params)
      [] name = <<"b", "e", "f", "o", "r", "e">> ->
            BeforeHandler(context, params)
      [] name = <<"a", "f", "t", "e", "r">> ->
            AfterHandler(context, params)

\* runBdCommand once execAsync has settled: stdout trimmed, or on failure
\* stderr, else the message, else 'Command failed'
RunBdCommand(outcome) ==
    IF outcome.ok THEN Trim(outcome.stdout)
    ELSE OrElse(outcome.stderr, OrElse(outcome.message, <<"C", "o", "m", "m",
          "a", "n", "d", " ", "f", "a", "i", "l", "e", "d">>))

\* a faulty variant of HandlerSettle: a failure of the process is not caught
\* and the handler rejects with it
HandlerSettleRejects(outcome) ==
    IF outcome.ok THEN Returned(Result(TRUE, Trim(outcome.stdout)))
    ELSE Thrown(outcome.message)

\* a handler once the runBdCommand it awaited has returned:
\* return { handled: true, content }
HandlerSettle(outcome) == Returned(Result(TRUE, RunBdCommand(outcome)))

\* how the external process can end
ExecOutcomes ==
    {[ok |-> TRUE, stdout |-> <<" ", "o", "u", "t", "\n">>],
     [ok |-> TRUE, stdout |-> <<>>],
     [ok |-> FALSE, stderr |-> <<"n", "o", " ", "d", "b">>, message |-> <<"C",
           "o", "m", "m", "a", "n", "d", " ", "f", "a", "i", "l", "e", "d",
           ":", " ", "b", "d">>],
     [ok |-> FALSE, stderr |-> <<>>, message |-> <<"s", "p", "a", "w", "n",
           " ", "b", "d", " ", "E", "N", "O", "E", "N", "T">>],
     [ok |-> FALSE, stderr |-> <<>>, message |-> <<>>]}

\* a faulty variant of CommandNames: the aliases are listed with the names
RECURSIVE CommandNamesWithAliases(_)
CommandNamesWithAliases(commands) ==
    IF commands = <<>> THEN <<>>
    ELSE <<Head(commands).name>> \o Head(commands).aliases
             \o CommandNamesWithAliases(Tail(commands))

\* availableCommands.map(c => c.name)
RECURSIVE CommandNames(_)
CommandNames(commands) ==
    IF commands = <<>> THEN <<>>
    ELSE <<Head(commands).name>> \o CommandNames(Tail(commands))

\* a faulty variant of MatchingCommands: a command matches when cmdName begins
\* with its name or with one of its aliases
MatchingCommandsByPrefix(commands, cmdName) ==
    {i \in DOMAIN commands :
        \/ StartsWith(cmdName, commands[i].name)
        \/ \E k \in DOMAIN commands[i].aliases :
              StartsWith(cmdName, commands[i].aliases[k])}

\* the positions of the commands whose name or alias is cmdName
MatchingCommands(commands, cmdName) ==
    {i \in DOMAIN commands :
        \/ commands[i].name = cmdName
        \/ \E k \in DOMAIN commands[i].aliases :
              commands[i].aliases[k] = cmdName}

UnknownCommand == <<"U", "n", "k", "n", "o", "w", "n", " ", "c", "o", "m", "m",
                    "a", "n", "d", ":", " ">>

\* the line's handleQuery up to its first suspension: the input is trimmed,
\* lower-cased and split, the first command in list order that matches runs
\* its handler with the rest joined by single spaces, and no match gives the
\* unhandled result
HandleQuery(l, input) ==
    LET trimmed == ToLowerCase(Trim(input))
        tokens == SplitWs(trimmed)
        cmdName == tokens[1]
        params == Join(Tail(tokens), <<" ">>)
        commands == l.availableCommands
        matching == MatchingCommands(commands, cmdName)
        context == l.source.context
    IN  IF matching = {}
        THEN [matched |-> <<>>,
              params |-> <<>>,
              run |-> [exec |-> FALSE,
                       now |-> ErrorResult(FALSE, <<>>,
                                   UnknownCommand \o cmdName
                                   \o <<".", " ", "T", "r", "y", ":", " ">>
                                   \o Join(CommandNames(commands),
                                           <<",", " ">>)),
                       context |-> context]]
        ELSE LET cmd == commands[CHOOSE i \in matching :
                                     \A j \in matching : i <= j]
             IN  [matched |-> cmd.name,
                  params |-> params,
                  run |-> HandlerRun(cmd.name, context, params)]

-----------------------------------------------------------------------------
(* The query interpreter: src/interpreter.ts                               *)

\* defaultFallbackConfig: { enabled: false }, so no handler
DefaultFallbackConfig == [enabled |-> FALSE, handler |-> "undefined"]

\* the configurations a host may pass to configureClaudeFallback: the handler
\* is absent or one of two handler functions
FallbackConfigs == [enabled : BOOLEAN, handler : {"undefined", "h1", "h2"}]

\* Object.entries(line.source.context): the keys in the order the adapter's
\* object literal sets them
ContextEntries(source) ==
    IF source.type = BEADS
    THEN <<[key |-> <<"t", "i", "m", "e", "s", "t", "a", "m", "p">>,
          value |-> source.context.timestamp],
           [key |-> <<"e", "v", "e", "n", "t", "C", "o", "d", "e">>,
                 value |-> source.context.eventCode],
           [key |-> <<"i", "s", "s", "u", "e", "I", "d">>,
                 value |-> source.context.issueId],
           [key |-> <<"a", "g", "e", "n", "t", "I", "d">>,
                 value |-> source.context.agentId],
           [key |-> <<"s", "e", "s", "s", "i", "o", "n", "I", "d">>,
                 value |-> source.context.sessionId],
           [key |-> <<"d", "e", "t", "a", "i", "l", "s">>,
                 value |-> source.context.details]>>
    ELSE <<[key |-> <<"k", "e", "y">>, value |-> source.context.key]>>

\* a faulty variant of FormatEntries: every entry is written, whatever its value
RECURSIVE FormatEntriesAll(_)
FormatEntriesAll(entries) ==
    IF entries = <<>> THEN <<>>
    ELSE <<"-", " ">> \o Head(entries).key \o <<":", " ">>
            \o Head(entries).value \o <<"\n">>
            \o FormatEntriesAll(Tail(entries))

\* the loop of formatContextForClaude over the entries: one line for each
\* value that is neither empty nor 'none'
RECURSIVE FormatEntries(_)
FormatEntries(entries) ==
    IF entries = <<>> THEN <<>>
    ELSE (IF Head(entries).value # <<>> /\ Head(entries).value # NONE
          THEN <<"-", " ">> \o Head(entries).key \o <<":", " ">>
                \o Head(entries).value
                   \o <<"\n">>
          ELSE <<>>)
             \o FormatEntries(Tail(entries))

\* line.availableCommands.map(c => `${c.name} (${c.description})`)
RECURSIVE FormatCommands(_)
FormatCommands(commands) ==
    IF commands = <<>> THEN <<>>
    ELSE <<Head(commands).name \o <<" ", "(">> \o Head(commands).description
          \o <<")">>>>
             \o FormatCommands(Tail(commands))

\* formatContextForClaude
FormatContextForClaude(l) ==
    <<"L", "o", "g", " ", "l", "i", "n", "e", " ", "c", "o", "n", "t", "e",
      "x", "t", ":", "\n">>
        \o <<"-", " ", "T", "y", "p", "e", ":", " ">> \o l.source.type
              \o <<"\n">>
        \o <<"-", " ", "T", "i", "m", "e", "s", "t", "a", "m", "p", ":",
             " ">> \o l.timestamp \o <<"\n">>
        \o <<"-", " ", "M", "e", "s", "s", "a", "g", "e", ":", " ">>
              \o l.message \o <<"\n">>
        \o <<"-", " ", "I", "D", ":", " ">> \o l.source.id \o <<"\n">>
        \o FormatEntries(ContextEntries(l.source))
        \o <<"\n", "A", "v", "a", "i", "l", "a", "b", "l", "e", " ", "c",
             "o", "m", "m", "a", "n", "d", "s", ":", " ">>
        \o Join(FormatCommands(l.availableCommands), <<",", " ">>)

Pending == [thrown |-> FALSE, value |-> [kind |-> "pending"]]

\* `${value}`: a string as it is, a built-in function as its source text, a
\* plain object as [object Object], and "undefined" when there is no value
TemplateString(v) ==
    CASE v.t = "string" -> v.s
      [] v.t = "function" ->
            <<"f", "u", "n", "c", "t", "i", "o", "n", " ">> \o v.name
                \o <<"(", ")", " ", "{", " ", "[", "n", "a", "t", "i", "v",
                     "e", " ", "c", "o", "d", "e", "]", " ", "}">>
      [] v.t = "object" ->
            <<"[", "o", "b", "j", "e", "c", "t", " ", "O", "b", "j", "e",
              "c", "t", "]">>
      [] OTHER -> <<"u", "n", "d", "e", "f", "i", "n", "e", "d">>

\* how a fallback handler can end: it resolves with a string, or it rejects
\* (or throws) with an Error or with a value that has no message
FallbackOutcomes ==
    {[ok |-> TRUE, response |-> <<"r", "e", "s", "p">>],
     [ok |-> TRUE, response |-> <<>>],
     [ok |-> FALSE, message |-> JsString(<<"A", "P", "I", " ", "e", "r", "r",
           "o", "r">>)],
     [ok |-> FALSE, message |-> JsUndefined]}

\* a faulty variant of InterpretContinue: the await of handleQuery is inside
\* the try block, so its failure is answered by the fallback or as a result
InterpretContinueCatches(hq, config, l, input) ==
    IF hq.thrown
    THEN IF config.enabled /\ config.handler # "undefined"
         THEN [pc |-> "fallback", result |-> Pending,
               calls |-> <<[handler |-> config.handler,
                            context |-> FormatContextForClaude(l),
                            query |-> input]>>]
         ELSE [pc |-> "returned",
               result |-> Returned(ErrorResult(FALSE, <<>>, hq.message)),
               calls |-> <<>>]
    ELSE IF hq.value.handled
    THEN [pc |-> "returned", result |-> hq, calls |-> <<>>]
    ELSE IF config.enabled /\ config.handler # "undefined"
    THEN [pc |-> "fallback", result |-> Pending,
          calls |-> <<[handler |-> config.handler,
                       context |-> FormatContextForClaude(l),
                       query |-> input]>>]
    ELSE [pc |-> "returned", result |-> hq, calls |-> <<>>]

\* a faulty variant of InterpretContinue: the enabled flag is not consulted
InterpretContinueIgnoresEnabled(hq, config, l, input) ==
    IF hq.thrown THEN [pc |-> "returned", result |-> hq, calls |-> <<>>]
    ELSE IF hq.value.handled
    THEN [pc |-> "returned", result |-> hq, calls |-> <<>>]
    ELSE IF config.handler # "undefined"
    THEN [pc |-> "fallback", result |-> Pending,
          calls |-> <<[handler |-> config.handler,
                       context |-> FormatContextForClaude(l),
                       query |-> input]>>]
    ELSE [pc |-> "returned", result |-> hq, calls |-> <<>>]

\* a faulty variant of InterpretContinue: the result is rebuilt from handled and
\* content instead of being returned as it is
InterpretContinueRebuilds(hq, config, l, input) ==
    IF hq.thrown THEN [pc |-> "returned", result |-> hq, calls |-> <<>>]
    ELSE IF hq.value.handled
    THEN [pc |-> "returned", result |-> hq, calls |-> <<>>]
    ELSE IF config.enabled /\ config.handler # "undefined"
    THEN [pc |-> "fallback", result |-> Pending,
          calls |-> <<[handler |-> config.handler,
                       context |-> FormatContextForClaude(l),
                       query |-> input]>>]
    ELSE [pc |-> "returned",
          result |-> Returned(Result(hq.value.handled, hq.value.content)),
          calls |-> <<>>]

\* interpret from the point where `await line.handleQuery(input)` has settled
\* with hq, under the configuration in force at that point: a rejection
\* leaves interpret, a handled result is returned, otherwise the handler of an
\* enabled fallback is called with the formatted context and the input, and
\* without one the result is returned
InterpretContinue(hq, config, l, input) ==
    IF hq.thrown THEN [pc |-> "returned", result |-> hq, calls |-> <<>>]
    ELSE IF hq.value.handled
    THEN [pc |-> "returned", result |-> hq, calls |-> <<>>]
    ELSE IF config.enabled /\ config.handler # "undefined"
    THEN [pc |-> "fallback", result |-> Pending,
          calls |-> <<[handler |-> config.handler,
                       context |-> FormatContextForClaude(l),
                       query |-> input]>>]
    ELSE [pc |-> "returned", result |-> hq, calls |-> <<>>]

\* a faulty variant of FallbackResult: a failure of the handler is thrown on
FallbackResultRethrows(outcome) ==
    IF outcome.ok THEN Returned(Result(TRUE, outcome.response))
    ELSE Thrown(TemplateString(outcome.message))

\* interpret once the awaited handler call has settled: the try block's
\* return, or the catch block's
FallbackResult(outcome) ==
    IF outcome.ok THEN Returned(Result(TRUE, outcome.response))
    ELSE Returned(ErrorResult(FALSE, <<>>,
             <<"C", "l", "a", "u", "d", "e", " ", "f", "a", "l", "l", "b",
               "a", "c", "k", " ", "f", "a", "i", "l", "e", "d", ":", " ">>
             \o TemplateString(outcome.message)))

\* the tests' createMockLine: a line of another source
MockLine ==
    [kind |-> "line",
     timestamp |-> <<"2", "0", "2", "5", "-", "0", "1", "-", "1", "5", "T",
                     "1", "5", ":", "0", "4", "Z">>,
     message |-> <<"t", "e", "s", "t", ".", "e", "v", "e", "n", "t">>,
     raw |-> <<"t", "e", "s", "t", "|", "e", "v", "e", "n", "t", "|", "l",
               "i", "n", "e">>,
     source |-> [type |-> <<"t", "e", "s", "t">>, id |-> <<"t", "e", "s", "t",
           "-", "i", "d">>,
                 context |-> [key |-> <<"v", "a", "l", "u", "e">>]],
     availableCommands |->
         <<[name |-> <<"s", "h", "o", "w">>, aliases |-> <<>>,
            description |-> <<"s", "h", "o", "w", " ", "c", "o", "m", "m",
                              "a", "n", "d">>],
           [name |-> <<"h", "e", "l", "p">>, aliases |-> <<>>,
            description |-> <<"h", "e", "l", "p", " ", "c", "o", "m", "m",
                              "a", "n", "d">>]>>]

\* how the handleQuery of such a line can end, as the tests' lines do: handled,
\* unhandled without and with an error, or rejected
MockOutcomes ==
    {Returned(Result(TRUE, <<"C", "o", "m", "m", "a", "n", "d", " ", "o",
                             "u", "t", "p", "u", "t">>)),
     Returned(Result(FALSE, <<>>)),
     Returned(ErrorResult(FALSE, <<>>, <<"N", "o", "t", " ", "h", "a", "n",
           "d", "l", "e", "d">>)),
     Thrown(<<"Q", "u", "e", "r", "y", " ", "e", "x", "p", "l", "o", "s",
              "i", "o", "n">>)}

\* The lines a caller queries: beads lines with an issue, without one (the
\* field empty, or the literal none), with and without a session, and a line
\* of another source.
InterpRawStrings ==
    {VALID_LINE,
     <<"2", "0", "2", "5", "-", "0", "1", "-", "1", "5", "T", "|", "s", "k",
       ".", "u", "p", "|", "|", "s", "t", "|", "|", "k", "=", "v">>,
     <<"2", "0", "2", "5", "-", "0", "1", "-", "1", "5", "T", "|", "z", "z",
       ".", "a", ".", "b", "|", "n", "o", "n", "e", "|", "|", "s", "1">>}

InterpLines ==
    {BeadsAdapterParse(JsString(r)).value : r \in InterpRawStrings}
        \cup {MockLine}

\* The queries: command names and aliases in either case and with
\* parameters, a word that is no command, the empty input, a question.
InterpInputs ==
    {<<"s", "h", "o", "w">>,
     <<" ", "S", "H", "O", "W", " ", " ", "M", "e", " ">>,
     <<"d", "e", "p", "s">>,
     <<"r", "e", "l">>,
     <<"c", "a", "t", "e", "g", "o", "r", "y">>,
     <<"C", "a", "t", " ", "B", "D", "\t", "x">>,
     <<"s", "e", "s", "s">>,
     <<"b", "e", "f", "o", "r", "e">>,
     <<"a">>,
     <<"u", "n", "k", "n", "o", "w", "n", "c", "m", "d">>,
     <<>>,
     <<"w", "h", "y", "?">>,
     <<"d", "e", "t", "a", "i", "l", "s">>}

NoLine == [kind |-> "none"]

IdleTask ==
    [pc |-> "idle", input |-> <<>>, matched |-> <<>>, params |-> <<>>,
     awaiting |-> FALSE, execs |-> <<>>, exec |-> [kind |-> "none"],
     hq |-> Pending, cfg0 |-> DefaultFallbackConfig,
     cfg |-> DefaultFallbackConfig,
     fb |-> <<>>, outcome |-> [kind |-> "none"], result |-> Pending]

\* The fields of task: pc is where interpret stands ("handleQuery" and
\* "fallback" are its two awaits); matched is the command handleQuery matched
\* and params the parameter string its handler was given; awaiting says the
\* handler awaits the external process, execs lists the processes started and
\* exec is how the process ended; hq is what line.handleQuery settled with;
\* cfg0 is the fallbackConfig in force when interpret was called and cfg the
\* one in force when it resumed; fb lists the calls of the
\* fallback handler and outcome is how the handler ended; result is what
\* interpret settled with.

InterpInit ==
    /\ fallbackConfig = DefaultFallbackConfig
    /\ configArg = [kind |-> "none"]
    /\ line = NoLine
    /\ source0 = NoLine
    /\ task = IdleTask

\* a faulty variant of Configured: the argument is merged into the old
\* configuration, so a handler given earlier stays when none is given
ConfiguredMerging(old, config) ==
    [enabled |-> config.enabled,
     handler |-> IF config.handler = "undefined" THEN old.handler
                 ELSE config.handler]

\* fallbackConfig = config
Configured(old, config) == config

\* configureClaudeFallback(config)
ConfigureClaudeFallbackOf(choices) ==
    \E config \in choices :
        /\ fallbackConfig' = Configured(fallbackConfig, config)
        /\ configArg' = config
        /\ UNCHANGED <<line, source0, task>>

\* the host passes any of the configurations
ConfigureClaudeFallback == ConfigureClaudeFallbackOf(FallbackConfigs)

\* the caller parses a line (or builds one) and holds it for querying
ObtainLineOf(choices) ==
    \E l \in choices :
        /\ task.pc = "idle"
        /\ line' = l
        /\ source0' = l.source
        /\ task' = IdleTask
        /\ UNCHANGED <<fallbackConfig, configArg>>

\* the caller comes to hold any of the lines
ObtainLine == ObtainLineOf(InterpLines)

\* interpret(line, input) up to its first suspension: line.handleQuery(input)
\* is called and awaited; the handler of a matched beads command has run up to
\* its own first suspension
InterpretCallOf(choices) ==
    \E input \in choices :
        /\ line # NoLine
        /\ task.pc = "idle"
        /\ IF line.source.type = BEADS
           THEN LET h == HandleQuery(line, input) IN
                /\ task' = [IdleTask EXCEPT
                               !.pc = "handleQuery",
                               !.input = input,
                               !.cfg0 = fallbackConfig,
                               !.matched = h.matched,
                               !.params = h.params,
                               !.awaiting = h.run.exec,
                               !.execs = IF h.run.exec THEN <<h.run.args>>
                                         ELSE <<>>,
                               !.hq = IF h.run.exec THEN Pending
                                      ELSE Returned(h.run.now)]
                /\ line' = [line EXCEPT !.source.context = h.run.context]
           ELSE /\ \E o \in MockOutcomes :
                       task' = [IdleTask EXCEPT !.pc = "handleQuery",
                             !.input = input, !.cfg0 = fallbackConfig,
                             !.hq = o]
                /\ line' = line
        /\ UNCHANGED <<fallbackConfig, configArg, source0>>

\* the caller puts any of the queries
InterpretCall == InterpretCallOf(InterpInputs)

\* the external process ends; runBdCommand returns its text and the handler
\* resolves with it
ExecSettle ==
    \E outcome \in ExecOutcomes :
        /\ task.pc = "handleQuery"
        /\ task.awaiting
        /\ task' = [task EXCEPT
                       !.awaiting = FALSE,
                       !.exec = outcome,
                       !.hq = HandlerSettle(outcome)]
        /\ UNCHANGED <<fallbackConfig, configArg, line, source0>>

\* a faulty variant of ConfigRead: the configuration is captured when
\* interpret is called
ConfigReadAtCall(atCall, now) == atCall

\* the fallbackConfig interpret reads: the module variable is read after the
\* await of handleQuery, so it is the value in force then
ConfigRead(atCall, now) == now

\* interpret resumes after `await line.handleQuery(input)`
InterpretResume ==
    /\ task.pc = "handleQuery"
    /\ ~task.awaiting
    /\ LET next == InterpretContinue(task.hq,
                                     ConfigRead(task.cfg0, fallbackConfig),
                                     line, task.input)
       IN  task' = [task EXCEPT !.pc = next.pc,
                                !.cfg = fallbackConfig,
                                !.fb = task.fb \o next.calls,
                                !.result = next.result]
    /\ UNCHANGED <<fallbackConfig, configArg, line, source0>>

\* the fallback handler settles and interpret returns
FallbackSettle ==
    \E outcome \in FallbackOutcomes :
        /\ task.pc = "fallback"
        /\ task' = [task EXCEPT !.pc = "returned",
                                !.outcome = outcome,
                                !.result = FallbackResult(outcome)]
        /\ UNCHANGED <<fallbackConfig, configArg, line, source0>>

\* the caller that awaited interpret takes the result; the call is over
TakeResult ==
    /\ task.pc = "returned"
    /\ task' = IdleTask
    /\ UNCHANGED <<fallbackConfig, configArg, line, source0>>

-----------------------------------------------------------------------------
(* isNaturalLanguage: src/interpreter.ts                                   *)

\* /^word\s/.test(s)
TestWordSpace(s, word) ==
    /\ StartsWith(s, word)
    /\ Len(s) > Len(word)
    /\ s[Len(word) + 1] \in WhiteSpace

\* /^tell\s+me/.test(s)
TestTellMe(s) ==
    /\ StartsWith(s, <<"t", "e", "l", "l">>)
    /\ \E j \in 5..Len(s) :
          /\ AllIn(s, 5, j, WhiteSpace)
          /\ StartsWith(SubSeq(s, j + 1, Len(s)), <<"m", "e">>)

\* /\?$/.test(s): without the m flag $ is the end of the input
TestEndsWithQuestionMark(s) == s # <<>> /\ s[Len(s)] = "?"

\* the words of the patterns /^word\s/, in the order of nlPatterns
NlWordPatterns ==
    <<<<"w", "h", "a", "t">>, <<"w", "h", "y">>, <<"h", "o", "w">>, <<"w",
          "h", "e", "n">>, <<"w", "h", "e", "r", "e">>, <<"w", "h", "o">>,
      <<"c", "a", "n">>, <<"c", "o", "u", "l", "d">>, <<"w", "o", "u", "l",
            "d">>, <<"s", "h", "o", "u", "l", "d">>, <<"i", "s">>, <<"a", "r",
            "e">>>>

\* the words of the patterns /^word/
NlPrefixPatterns == <<<<"e", "x", "p", "l", "a", "i", "n">>, <<"d", "e", "s",
      "c", "r", "i", "b", "e">>>>

\* a faulty variant of IsNaturalLanguage: the input is not lower-cased
IsNaturalLanguageCaseSensitive(input) ==
    LET trimmed == Trim(input) IN
    \/ \E i \in DOMAIN NlWordPatterns : TestWordSpace(trimmed, NlWordPatterns[i])
    \/ TestTellMe(trimmed)
    \/ \E i \in DOMAIN NlPrefixPatterns : StartsWith(trimmed, NlPrefixPatterns[i])
    \/ TestEndsWithQuestionMark(trimmed)

\* a faulty variant of IsNaturalLanguage: with the fallback disabled every
\* input counts as a command
IsNaturalLanguageWhenEnabled(input) ==
    fallbackConfig.enabled /\ IsNaturalLanguageCaseSensitive(ToLowerCase(input))

\* isNaturalLanguage(input): nlPatterns.some(pattern => pattern.test(trimmed))
IsNaturalLanguage(input) ==
    LET trimmed == ToLowerCase(Trim(input)) IN
    \/ \E i \in DOMAIN NlWordPatterns : TestWordSpace(trimmed, NlWordPatterns[i])
    \/ TestTellMe(trimmed)
    \/ \E i \in DOMAIN NlPrefixPatterns : StartsWith(trimmed, NlPrefixPatterns[i])
    \/ TestEndsWithQuestionMark(trimmed)

\* The inputs: optional white space, a first word (the words of the patterns,
\* some in other case, command names, words that only begin like a pattern
\* word, or none), a separator, a tail, optional white space.
NlFirstWords ==
    Range(NlWordPatterns) \cup Range(NlPrefixPatterns) \cup
    {<<"t", "e", "l", "l">>, <<"W", "H", "A", "T">>, <<"H", "o", "w">>, <<"I",
          "s">>, <<"T", "E", "L", "L">>, <<"E", "x", "p", "l", "a", "i",
          "n">>,
     <<"s", "h", "o", "w">>, <<"r", "e", "l", "a", "t", "e", "d">>, <<"d",
           "e", "p", "s">>, <<"c", "a", "t", "e", "g", "o", "r", "y">>,
     <<"w", "h", "a", "t", "e", "v", "e", "r">>, <<"i", "s", "l", "a", "n",
           "d">>, <<"c", "a", "n", "n", "e", "d">>, <<>>}

NlSeparators == {<<>>, <<" ">>, <<" ", " ">>, <<"\t">>, <<"\n">>}

NlTails == {<<>>, <<"m", "e">>, <<"M", "E", " ", "x">>, <<"b", "d">>, <<"x",
      "?">>, <<"?">>}

NlPads == {<<>>, <<" ">>}

NlInputs ==
    {a \o w \o sep \o t \o b :
        a \in NlPads, w \in NlFirstWords, sep \in NlSeparators,
        t \in NlTails, b \in NlPads}

NlIdle ==
    /\ nlInput = <<>>
    /\ nlFirst = NotCalled
    /\ nlResult = NotCalled

\* a caller is about to call isNaturalLanguage on any of the inputs
NlInputsChosen ==
    /\ nlInput \in NlInputs
    /\ nlFirst = NotCalled
    /\ nlResult = NotCalled

\* isNaturalLanguage(nlInput) runs
CallIsNaturalLanguage ==
    /\ nlResult' = Returned(JsBoolean(IsNaturalLanguage(nlInput)))
    /\ nlFirst' = IF nlFirst = NotCalled THEN nlResult' ELSE nlFirst
    /\ UNCHANGED nlInput

-----------------------------------------------------------------------------
(* getDefaultExpansion of a beads line: src/adapters/beads.ts              *)

JsFunction(name) == [t |-> "function", name |-> name]
JsObject == [t |-> "object"]

\* What a property read finds on Object.prototype when the object read has no
\* such key of its own: constructor is the function Object, the methods are
\* functions named as their key, __proto__ is the prototype object itself.
ObjectPrototypeMethods ==
    {<<"t", "o", "S", "t", "r", "i", "n", "g">>, <<"v", "a", "l", "u", "e",
          "O", "f">>,
     <<"h", "a", "s", "O", "w", "n", "P", "r", "o", "p", "e", "r", "t",
       "y">>}

InheritedMember(key) ==
    IF key = <<"c", "o", "n", "s", "t", "r", "u", "c", "t", "o", "r">>
    THEN JsFunction(<<"O", "b", "j", "e", "c", "t">>)
    ELSE IF key \in ObjectPrototypeMethods THEN JsFunction(key)
    ELSE IF key = <<"_", "_", "p", "r", "o", "t", "o", "_", "_">> THEN JsObject
    ELSE JsUndefined

\* EVENT_CATEGORIES[category]: the table is a plain object literal, so a key
\* it does not own is looked up on its prototype
EventCategoryLookup(category) ==
    LET own == {i \in DOMAIN EventCategories :
                   EventCategories[i].prefix = category}
    IN  IF own # {}
        THEN JsString(EventCategories[CHOOSE i \in own : TRUE].label)
        ELSE InheritedMember(category)

\* EVENT_CATEGORIES[category] || 'Unknown'
CategoryDesc(category) ==
    LET found == EventCategoryLookup(category) IN
    IF Truthy(found) THEN found ELSE JsString(<<"U", "n", "k", "n", "o", "w",
          "n">>)

\* one `content += ...` line of the expansion
ExpansionLine(label, text) ==
    <<"*", "*">> \o label \o <<":", "*", "*", " ">> \o text \o <<"\n">>

\* the four conditional lines of the expansion, in the order they are written
OptionalLines(context) ==
    (IF context.issueId # <<>> /\ context.issueId # NONE
     THEN ExpansionLine(<<"I", "s", "s", "u", "e">>, context.issueId) ELSE <<>>)
    \o (IF context.agentId # <<>>
        THEN ExpansionLine(<<"A", "g", "e", "n", "t">>,
              context.agentId) ELSE <<>>)
    \o (IF context.sessionId # <<>>
        THEN ExpansionLine(<<"S", "e", "s", "s", "i", "o", "n">>,
              context.sessionId) ELSE <<>>)
    \o (IF context.details # <<>>
        THEN ExpansionLine(<<"D", "e", "t", "a", "i", "l", "s">>,
              context.details) ELSE <<>>)

SUGGESTIONS ==
    <<<<"s", "h", "o", "w">>, <<"r", "e", "l", "a", "t", "e", "d">>,
      <<"c", "a", "t", "e", "g", "o", "r", "y">>, <<"s", "e", "s", "s", "i",
            "o", "n">>>>

\* getDefaultExpansion, a closure over the line's context
GetDefaultExpansion(l) ==
    LET context == l.source.context
        code == ParseEventCode(context.eventCode)
        categoryDesc == CategoryDesc(code.category)
    IN  [content |->
             ExpansionLine(<<"E", "v", "e", "n", "t">>, context.eventCode)
             \o ExpansionLine(<<"C", "a", "t", "e", "g", "o", "r", "y">>,
                   TemplateString(categoryDesc))
             \o ExpansionLine(<<"A", "c", "t", "i", "o", "n">>, code.action)
             \o OptionalLines(context),
         data |-> context,
         suggestions |-> SUGGESTIONS]

\* the caller awaits getDefaultExpansion of the line parse returned
CallGetDefaultExpansion ==
    /\ parsed # NotCalled
    /\ ~parsed.thrown
    /\ parsed.value # NULL
    /\ expansion = NotCalled
    /\ expansion' = Returned(GetDefaultExpansion(parsed.value))
    /\ UNCHANGED <<rawLine, parsed>>

-----------------------------------------------------------------------------
(* AllpPanel: src/renderer/panel.ts.  The webview posts 'selectLine' and    *)
(* 'query' messages; handleMessage starts handleLineSelect or handleQuery   *)
(* for each and returns without awaiting them.                              *)

MaxPanelMessages == 3

\* activate() registers BeadsAdapter, and nothing else, in the registry the
\* panel asks
PanelRegistry == <<BeadsAdapter>>

NoSelection == [kind |-> "null"]

\* what the webview can send: the raw text of a displayed line, a query
PanelRawLines ==
    {VALID_LINE, <<"n", "o", "t", " ", "a", " ", "l", "o", "g", " ", "l",
                   "i", "n", "e">>}

PanelQueries ==
    {<<"s", "h", "o", "w">>, <<"d", "e", "p", "s">>,
     <<"u", "n", "k", "n", "o", "w", "n", "c", "m", "d">>}

\* result.error, which a result may lack
ErrorOf(result) ==
    IF "error" \in DOMAIN result THEN JsString(result.error) ELSE JsUndefined

\* the queryResult message handleQuery posts for what interpret resolved with;
\* `of` tells which received message it answers (history)
QueryResultMessage(n, result) ==
    [type |-> "queryResult", of |-> n,
     payload |-> [content |-> result.content,
                  error |-> ~result.handled /\ Truthy(ErrorOf(result)),
                  errorMessage |-> ErrorOf(result)]]

ExpansionMessage(n, payload) ==
    [type |-> "expansion", of |-> n, payload |-> payload]

PanelInit ==
    /\ selectedLine = NoSelection
    /\ inFlight = {}
    /\ posted = <<>>
    /\ received = 0

\* handleMessage({type: 'selectLine'}): handleLineSelect runs to its end, its
\* one await being of an async function that does not suspend
ReceiveSelectLine ==
    \E raw \in PanelRawLines :
        /\ received < MaxPanelMessages
        /\ received' = received + 1
        /\ LET r == RegistryParse(PanelRegistry, JsString(raw)).result IN
           IF r.value = NULL
           THEN /\ posted' = Append(posted,
                      ExpansionMessage(received',
                          [content |-> <<"U", "n", "a", "b", "l", "e", " ",
                                         "t", "o", " ", "p", "a", "r", "s",
                                         "e", " ", "l", "o", "g", " ", "l",
                                         "i", "n", "e">>,
                           suggestions |-> <<>>]))
                /\ UNCHANGED selectedLine
           ELSE /\ selectedLine' = [id |-> received', line |-> r.value]
                /\ posted' = Append(posted,
                      ExpansionMessage(received',
                                       GetDefaultExpansion(r.value)))
        /\ UNCHANGED inFlight

\* handleMessage({type: 'query'}): handleQuery runs up to its first real
\* suspension.  Without a selection, and for an input whose handling starts no
\* external process, that is its end; otherwise interpret stays pending on
\* the process and handleMessage has returned.
ReceiveQuery ==
    \E input \in PanelQueries :
        /\ received < MaxPanelMessages
        /\ received' = received + 1
        /\ IF selectedLine = NoSelection
           THEN /\ posted' = Append(posted,
                      [type |-> "queryResult", of |-> received',
                       payload |-> [content |-> <<"N", "o", " ", "l", "o",
                             "g", " ", "l", "i", "n", "e", " ", "s", "e", "l",
                             "e", "c", "t", "e", "d">>,
                                    error |-> TRUE]])
                /\ UNCHANGED <<selectedLine, inFlight>>
           ELSE LET h == HandleQuery(selectedLine.line, input) IN
                /\ selectedLine' =
                       [selectedLine EXCEPT
                           !.line.source.context = h.run.context]
                /\ IF h.run.exec
                   THEN /\ inFlight' = inFlight \cup
                               {[of |-> received',
                                 lineId |-> selectedLine.id,
                                 line |-> selectedLine.line,
                                 input |-> input]}
                        /\ UNCHANGED posted
                   ELSE /\ posted' = Append(posted,
                              QueryResultMessage(received',
                                  InterpretContinue(Returned(h.run.now),
                                      DefaultFallbackConfig,
                                      selectedLine.line,
                                      input).result.value))
                        /\ UNCHANGED inFlight

\* the external process of a pending interpret ends, whichever ends first;
\* its handler resolves, interpret returns and handleQuery posts the result
PanelExecSettle ==
    \E t \in inFlight, outcome \in ExecOutcomes :
        /\ inFlight' = inFlight \ {t}
        /\ posted' = Append(posted,
              QueryResultMessage(t.of,
                  InterpretContinue(HandlerSettle(outcome),
                      DefaultFallbackConfig, t.line,
                      t.input).result.value))
        /\ UNCHANGED <<selectedLine, received>>

panelVars == <<selectedLine, inFlight, posted, received>>

-----------------------------------------------------------------------------
(* Several parsed lines held at once.  Objects have identity: a context     *)
(* object and a command array are entries of a heap, a line refers to them  *)
(* by position, and the handlers of a command array are closures over the   *)
(* context object it was created for (env).                                 *)

MaxHeldLines == 2
MaxRuns == 2

HeldRawStrings ==
    {VALID_LINE,
     <<"2", "0", "2", "5", "-", "0", "2", "-", "2", "0", "T", "|", "s", "k",
       ".", "u", "p", "|", "b", "d", "-", "2", "|", "c", "c", "|", "s",
       "2">>}

HeldQueries ==
    {<<"s", "h", "o", "w">>, <<"s", "e", "s", "s", "i", "o", "n">>,
     <<"b", "e", "f", "o", "r", "e">>, <<"c", "a", "t", "e", "g", "o", "r",
           "y">>}

\* a faulty variant of CreateBeadsCommands: the array is built for the first
\* context and kept for all later lines
CreateBeadsCommandsOnce(heap, contextRef) ==
    IF heap # <<>> THEN [heap |-> heap, ref |-> 1]
    ELSE [heap |-> <<[env |-> contextRef]>>, ref |-> 1]

\* createBeadsCommands(context): a new array whose handlers close over the
\* context object passed in
CreateBeadsCommands(heap, contextRef) ==
    [heap |-> Append(heap, [env |-> contextRef]), ref |-> Len(heap) + 1]

HeldInit ==
    /\ contextHeap = <<>>
    /\ commandsHeap = <<>>
    /\ held = <<>>
    /\ runs = <<>>

\* BeadsAdapter.parse(raw) returns a line that the caller keeps: parse builds
\* the context object, createActionableLogLine the command array and the line
ParseAndHold ==
    \E raw \in HeldRawStrings :
        /\ Len(held) < MaxHeldLines
        /\ LET r == BeadsAdapterParse(JsString(raw))
               contextRef == Len(contextHeap) + 1
               commands == CreateBeadsCommands(commandsHeap, contextRef)
           IN  /\ r.value # NULL
               /\ contextHeap' = Append(contextHeap, r.value.source.context)
               /\ commandsHeap' = commands.heap
               /\ held' = Append(held, [raw |-> raw, context |-> contextRef,
                     availableCommands |-> commands.ref])
        /\ UNCHANGED runs

\* held[i].handleQuery(input) up to the handler's first suspension: the
\* handler found in the line's command array runs on the context object it
\* closed over; what it returned at once or the process it started is recorded
QueryHeld ==
    \E i \in DOMAIN held, input \in HeldQueries :
        /\ Len(runs) < MaxRuns
        /\ LET env == commandsHeap[held[i].availableCommands].env
               h == HandleQuery(
                        CreateActionableLogLine(held[i].raw,
                              contextHeap[env]),
                        input)
           IN  /\ runs' = Append(runs, [line |-> i, input |-> input,
                 run |-> h.run])
               /\ contextHeap' = [contextHeap EXCEPT ![env] = h.run.context]
        /\ UNCHANGED <<commandsHeap, held>>

heldVars == <<contextHeap, commandsHeap, held, runs>>

-----------------------------------------------------------------------------
(* MultiProjectWatcher: src/extension.ts, for one configured project whose  *)
(* log directory exists.  The file is a sequence of lines, each written     *)
(* whole; a line is a positive number (its text, unique) or 0 for a blank   *)
(* line, and a size is a number of lines.  fs.watch callbacks and stream    *)
(* reads run some time after what caused them.                              *)

MaxFileOps == 3
MaxWatchCalls == 2

BLANK == 0
EOF == -1

\* a watcher object as fs.watch returns it, with the lastSize of the
\* WatchedProject its callback closes over and the events it has not yet
\* delivered to the callback
DirWatcher ==
    [kind |-> "dir", open |-> TRUE, lastSize |-> 0, rename |-> FALSE,
     change |-> FALSE]
FileWatcher(size) ==
    [kind |-> "file", open |-> TRUE, lastSize |-> size, rename |-> FALSE,
     change |-> FALSE]

\* the log file is missing, or it is there with two lines in it
WatcherInit ==
    /\ fileExists \in BOOLEAN
    /\ fileLines = IF fileExists THEN <<1, 2>> ELSE <<>>
    /\ written = Len(fileLines)
    /\ fileOps = 0
    /\ watchers = <<>>
    /\ registered = 0
    /\ streams = <<>>
    /\ delivered = <<>>
    /\ stopped = FALSE
    /\ watchCalls = 0

WatcherIdle == WatcherInit /\ ~fileExists

\* loadExistingLines(project): a read stream over the whole file is created
LoadExistingLines(ss) == Append(ss, [start |-> 0, end |-> EOF])

\* stopAll on the Map: the watcher of the entry is closed, the Map cleared
StopAllOf(ws, entry) ==
    [w \in DOMAIN ws |->
        IF w = entry THEN [ws[w] EXCEPT !.open = FALSE] ELSE ws[w]]

\* watchProject(config) on the watchers ws, the streams ss: what it makes of
\* them, and the Map entry it sets
WatchProjectOn(ws, ss) ==
    IF ~fileExists
    THEN [watchers |-> Append(ws, DirWatcher), streams |-> ss,
          registered |-> Len(ws) + 1]
    ELSE [watchers |-> Append(ws, FileWatcher(Len(fileLines))),
          streams |-> LoadExistingLines(ss),
          registered |-> Len(ws) + 1]

\* watchProjects([config]): stopAll, then watchProject(config)
WatchProjects ==
    /\ watchCalls < MaxWatchCalls
    /\ watchCalls' = watchCalls + 1
    /\ LET w == WatchProjectOn(StopAllOf(watchers, registered), streams) IN
       /\ watchers' = w.watchers
       /\ streams' = w.streams
       /\ registered' = w.registered
    /\ stopped' = FALSE
    /\ UNCHANGED <<fileExists, fileLines, written, fileOps, delivered>>

\* stopAll()
StopAll ==
    /\ watchCalls < MaxWatchCalls
    /\ watchCalls' = watchCalls + 1
    /\ watchers' = StopAllOf(watchers, registered)
    /\ registered' = 0
    /\ stopped' = TRUE
    /\ UNCHANGED <<fileExists, fileLines, written, fileOps, streams,
                   delivered>>

\* the events a change of the file system raises on the open watchers
Raise(ws, kind, event) ==
    [w \in DOMAIN ws |->
        IF ws[w].open /\ ws[w].kind = kind
        THEN [ws[w] EXCEPT ![event] = TRUE]
        ELSE ws[w]]

\* another process creates the log file
CreateFile ==
    /\ fileOps < MaxFileOps
    /\ ~fileExists
    /\ fileExists' = TRUE
    /\ fileOps' = fileOps + 1
    /\ watchers' = Raise(watchers, "dir", "rename")
    /\ UNCHANGED <<fileLines, written, registered, streams, delivered,
                   stopped, watchCalls>>

\* another process appends a line, blank or not, to the log file
AppendLine ==
    \E blank \in BOOLEAN :
        /\ fileOps < MaxFileOps
        /\ fileExists
        /\ fileOps' = fileOps + 1
        /\ written' = IF blank THEN written ELSE written + 1
        /\ fileLines' = Append(fileLines, IF blank THEN BLANK ELSE written')
        /\ watchers' = Raise(watchers, "file", "change")
        /\ UNCHANGED <<fileExists, registered, streams, delivered, stopped,
                       watchCalls>>

\* another process truncates the log file to nothing
Truncate ==
    /\ fileOps < MaxFileOps
    /\ fileExists
    /\ fileLines # <<>>
    /\ fileOps' = fileOps + 1
    /\ fileLines' = <<>>
    /\ watchers' = Raise(watchers, "file", "change")
    /\ UNCHANGED <<fileExists, written, registered, streams, delivered,
                   stopped, watchCalls>>

\* the callback of a directory watcher runs for a 'rename' of the log file:
\* this.watchProject(config)
DirWatcherCallback ==
    \E w \in DOMAIN watchers :
        /\ watchers[w].open
        /\ watchers[w].rename
        /\ LET n == WatchProjectOn(
                        [watchers EXCEPT ![w].rename = FALSE], streams) IN
           /\ watchers' = n.watchers
           /\ streams' = n.streams
           /\ registered' = n.registered
        /\ UNCHANGED <<fileExists, fileLines, written, fileOps, delivered,
                       stopped, watchCalls>>

\* readNewLines(project) for the project of watcher w
ReadNewLines(w) ==
    LET size == Len(fileLines)
        lastSize == watchers[w].lastSize
    IN  IF size <= lastSize
        THEN IF size < lastSize
             THEN [lastSize |-> 0, streams |-> LoadExistingLines(streams)]
             ELSE [lastSize |-> lastSize, streams |-> streams]
        ELSE [lastSize |-> size,
              streams |-> Append(streams, [start |-> lastSize,
                                           end |-> size])]

\* the callback of a file watcher runs for a 'change': readNewLines(project)
FileWatcherCallback ==
    \E w \in DOMAIN watchers :
        /\ watchers[w].open
        /\ watchers[w].change
        /\ LET r == ReadNewLines(w) IN
           /\ watchers' = [watchers EXCEPT ![w].change = FALSE,
                                           ![w].lastSize = r.lastSize]
           /\ streams' = r.streams
        /\ UNCHANGED <<fileExists, fileLines, written, fileOps, registered,
                       delivered, stopped, watchCalls>>

\* the lines a stream reads from the file as it is when it is read
StreamLines(stream) ==
    LET to == IF stream.end = EOF \/ stream.end > Len(fileLines)
              THEN Len(fileLines) ELSE stream.end
    IN  SubSeq(fileLines, stream.start + 1, to)

\* a read stream is read to its end; rl.on('line') passes every line that is
\* not blank to panel.addLogLine
StreamRead ==
    \E i \in DOMAIN streams :
        /\ delivered' = delivered \o
               SelectSeq(StreamLines(streams[i]), LAMBDA l : l # BLANK)
        /\ streams' = [k \in 1..(Len(streams) - 1) |->
                          IF k < i THEN streams[k] ELSE streams[k + 1]]
        /\ UNCHANGED <<fileExists, fileLines, written, fileOps, watchers,
                       registered, stopped, watchCalls>>

watcherVars == <<fileExists, fileLines, written, fileOps, watchers,
                 registered, streams, delivered, stopped, watchCalls>>

hostVars == <<panelVars, heldVars, watcherVars>>

HostIdle == PanelInit /\ HeldInit /\ WatcherIdle

-----------------------------------------------------------------------------
(* Specifications                                                          *)

\* BeadsAdapter.parse applied to each input
ParseNext ==
    \/ CallBeadsParse /\ UNCHANGED <<cmdVars, regVars, interpVars, nlVars,
          hostVars>>
    \/ CallGetDefaultExpansion
          /\ UNCHANGED <<cmdVars, regVars, interpVars, nlVars, hostVars>>

\* parseCommand applied to each input
CmdNext == CallParseCommand /\ UNCHANGED <<parseVars, regVars, interpVars,
      nlVars, hostVars>>

\* a registry under any sequence of register and parse calls
RegNext ==
    \/ Register /\ UNCHANGED <<parseVars, cmdVars, interpVars, nlVars,
          hostVars>>
    \/ CallRegistryParse /\ UNCHANGED <<parseVars, cmdVars, interpVars,
          nlVars, hostVars>>

\* a caller querying lines through interpret, one query at a time, while the
\* host reconfigures the fallback at any point
InterpNext ==
    \/ ConfigureClaudeFallback /\ UNCHANGED <<parseVars, cmdVars, regVars,
          nlVars, hostVars>>
    \/ ObtainLine /\ UNCHANGED <<parseVars, cmdVars, regVars, nlVars, hostVars>>
    \/ InterpretCall /\ UNCHANGED <<parseVars, cmdVars, regVars, nlVars,
          hostVars>>
    \/ ExecSettle /\ UNCHANGED <<parseVars, cmdVars, regVars, nlVars, hostVars>>
    \/ InterpretResume /\ UNCHANGED <<parseVars, cmdVars, regVars, nlVars,
          hostVars>>
    \/ FallbackSettle /\ UNCHANGED <<parseVars, cmdVars, regVars, nlVars,
          hostVars>>
    \/ TakeResult /\ UNCHANGED <<parseVars, cmdVars, regVars, nlVars, hostVars>>

\* isNaturalLanguage applied to each input
NlNext ==
    CallIsNaturalLanguage /\ UNCHANGED <<parseVars, cmdVars, regVars,
          interpVars, hostVars>>

\* the state after module load and `new DefaultAdapterRegistry()`
Init == ParseIdle /\ CmdIdle /\ RegInit /\ InterpInit /\ NlIdle /\ HostIdle

InitParse ==
    ParseInputs /\ CmdIdle /\ RegInit /\ InterpInit /\ NlIdle /\ HostIdle

InitCmd ==
    ParseIdle /\ CmdInputs /\ RegInit /\ InterpInit /\ NlIdle /\ HostIdle

InitNl ==
    /\ ParseIdle /\ CmdIdle /\ RegInit /\ InterpInit /\ NlInputsChosen
    /\ HostIdle

\* One process using all of it: a host that registers adapters, routes a line
\* through the registry, configures the fallback, holds a line and queries it,
\* and asks isNaturalLanguage about an input at any point in between.
SharedAdapters == {a \in SourceAdapters : a.impl # "prefix"}

SharedLines == {JsString(VALID_LINE)}

SharedConfigs ==
    {c \in FallbackConfigs : c.enabled <=> c.handler = "h1"}

SharedInterpLines == {BeadsAdapterParse(JsString(VALID_LINE)).value}

SharedQueries == {<<"s", "h", "o", "w">>, <<"w", "h", "y", "?">>}

SharedNlInputs == {<<"s", "h", "o", "w">>, <<" ", "W", "h", "y", "?", " ">>}

SharedNext ==
    \/ CallIsNaturalLanguage
          /\ UNCHANGED <<parseVars, cmdVars, regVars, interpVars, hostVars>>
    \/ RegisterOf(SharedAdapters)
          /\ UNCHANGED <<parseVars, cmdVars, interpVars, nlVars, hostVars>>
    \/ CallRegistryParseOf(SharedLines)
          /\ UNCHANGED <<parseVars, cmdVars, interpVars, nlVars, hostVars>>
    \/ ConfigureClaudeFallbackOf(SharedConfigs)
          /\ UNCHANGED <<parseVars, cmdVars, regVars, nlVars, hostVars>>
    \/ ObtainLineOf(SharedInterpLines)
          /\ UNCHANGED <<parseVars, cmdVars, regVars, nlVars, hostVars>>
    \/ InterpretCallOf(SharedQueries)
          /\ UNCHANGED <<parseVars, cmdVars, regVars, nlVars, hostVars>>
    \/ ExecSettle /\ UNCHANGED <<parseVars, cmdVars, regVars, nlVars, hostVars>>
    \/ InterpretResume /\ UNCHANGED <<parseVars, cmdVars, regVars, nlVars,
          hostVars>>
    \/ FallbackSettle /\ UNCHANGED <<parseVars, cmdVars, regVars, nlVars,
          hostVars>>
    \/ TakeResult /\ UNCHANGED <<parseVars, cmdVars, regVars, nlVars, hostVars>>

InitShared ==
    /\ ParseIdle /\ CmdIdle /\ RegInit /\ InterpInit /\ HostIdle
    /\ nlInput \in SharedNlInputs
    /\ nlFirst = NotCalled
    /\ nlResult = NotCalled

\* the panel under any sequence of messages from the webview, the external
\* processes its queries start ending at any time
PanelNext ==
    \/ ReceiveSelectLine
          /\ UNCHANGED <<parseVars, cmdVars, regVars, interpVars, nlVars,
                         heldVars, watcherVars>>
    \/ ReceiveQuery
          /\ UNCHANGED <<parseVars, cmdVars, regVars, interpVars, nlVars,
                         heldVars, watcherVars>>
    \/ PanelExecSettle
          /\ UNCHANGED <<parseVars, cmdVars, regVars, interpVars, nlVars,
                         heldVars, watcherVars>>

\* a caller that parses several lines, keeps them, and queries them in any
\* order
HeldNext ==
    \/ ParseAndHold
          /\ UNCHANGED <<parseVars, cmdVars, regVars, interpVars, nlVars,
                         panelVars, watcherVars>>
    \/ QueryHeld
          /\ UNCHANGED <<parseVars, cmdVars, regVars, interpVars, nlVars,
                         panelVars, watcherVars>>

\* the watcher of one project while the host starts and stops watching and
\* other processes create, extend and truncate the log file
WatcherNext ==
    \/ WatchProjects /\ UNCHANGED <<coreVars, panelVars, heldVars>>
    \/ StopAll /\ UNCHANGED <<coreVars, panelVars, heldVars>>
    \/ CreateFile /\ UNCHANGED <<coreVars, panelVars, heldVars>>
    \/ AppendLine /\ UNCHANGED <<coreVars, panelVars, heldVars>>
    \/ Truncate /\ UNCHANGED <<coreVars, panelVars, heldVars>>
    \/ DirWatcherCallback /\ UNCHANGED <<coreVars, panelVars, heldVars>>
    \/ FileWatcherCallback /\ UNCHANGED <<coreVars, panelVars, heldVars>>
    \/ StreamRead /\ UNCHANGED <<coreVars, panelVars, heldVars>>

InitWatcher ==
    /\ ParseIdle /\ CmdIdle /\ RegInit /\ InterpInit /\ NlIdle
    /\ PanelInit /\ HeldInit /\ WatcherInit

Next ==
    \/ ParseNext \/ CmdNext \/ RegNext \/ InterpNext \/ NlNext
    \/ PanelNext \/ HeldNext \/ WatcherNext

SpecParse == InitParse /\ [][ParseNext]_vars
SpecCmd == InitCmd /\ [][CmdNext]_vars
SpecRegistry == Init /\ [][RegNext]_vars
SpecInterp == Init /\ [][InterpNext]_vars
SpecNl == InitNl /\ [][NlNext]_vars
SpecShared == InitShared /\ [][SharedNext]_vars
SpecPanel == Init /\ [][PanelNext]_vars
SpecHeld == Init /\ [][HeldNext]_vars
SpecWatcher == InitWatcher /\ [][WatcherNext]_vars
Spec == (Init \/ InitParse \/ InitCmd \/ InitNl \/ InitWatcher)
            /\ [][Next]_vars

-----------------------------------------------------------------------------
(* The grammar of a beads line, stated on the line itself: the fields are  *)
(* what lies between the '|' characters.                                   *)

Bars(s) == {i \in DOMAIN s : s[i] = "|"}

NumFields(s) == Cardinality(Bars(s)) + 1

\* the position of the n-th '|' of s
NthBar(s, n) ==
    CHOOSE i \in Bars(s) : Cardinality({j \in Bars(s) : j <= i}) = n

\* the n-th field of s, for n <= NumFields(s)
Field(s, n) ==
    LET from == IF n = 1 THEN 1 ELSE NthBar(s, n - 1) + 1
        to == IF n = NumFields(s) THEN Len(s) ELSE NthBar(s, n) - 1
    IN  SubSeq(s, from, to)

\* s starts with YYYY-MM-DDT
StartsWithIsoDate(s) ==
    /\ Len(s) >= 11
    /\ \A i \in 1..11 :
          CASE i \in {5, 8} -> s[i] = "-"
            [] i = 11 -> s[i] = "T"
            [] OTHER -> s[i] \in Digits

WhiteSpaceOnly(s) == \A i \in DOMAIN s : s[i] \in WhiteSpace

\* the input fails a rule of the grammar
FailsGrammar(v) ==
    \/ v.t # "string"
    \/ v.s = <<>>
    \/ WhiteSpaceOnly(v.s)
    \/ NumFields(v.s) < 5
    \/ ~StartsWithIsoDate(Field(v.s, 1))
    \/ Field(v.s, 2) = <<>>
    \/ ~Includes(Field(v.s, 2), ".")

ParseCalled == parsed # NotCalled

\* C1: BeadsAdapter.parse returns null, and does not throw, for every input
\* that fails a rule of the grammar: an input that is no string, the empty
\* string, a string of white space, fewer than 5 fields, a first field that
\* does not start with YYYY-MM-DDT, a second field that is empty or has no '.'.
C1_MalformedGivesNull ==
    ParseCalled /\ FailsGrammar(rawLine) => parsed = Returned(NULL)

\* parse has returned null for a line of at least 5 fields with a good
\* timestamp whose event code is not empty and has no '.'
C1_Witness ==
    /\ parsed = Returned(NULL)
    /\ rawLine.t = "string"
    /\ NumFields(rawLine.s) >= 5
    /\ StartsWithIsoDate(Field(rawLine.s, 1))
    /\ Field(rawLine.s, 2) # <<>>
    /\ ~Includes(Field(rawLine.s, 2), ".")

\* C2: for every string that satisfies the grammar, BeadsAdapter.parse returns
\* a line with source.type 'beads', timestamp the first field, message the
\* EVENT_CODE field, source.id the ENTITY_ID field or 'none' when that field
\* is empty, raw the input, and context agentId and sessionId the fourth and
\* fifth fields.
C2_WellFormedGivesLine ==
    ParseCalled /\ ~FailsGrammar(rawLine) =>
        /\ ~parsed.thrown
        /\ parsed.value.kind = "line"
        /\ parsed.value.source.type = <<"b", "e", "a", "d", "s">>
        /\ parsed.value.timestamp = Field(rawLine.s, 1)
        /\ parsed.value.message = Field(rawLine.s, 2)
        /\ parsed.value.source.id =
              (IF Field(rawLine.s, 3) = <<>> THEN <<"n", "o", "n", "e">>
               ELSE Field(rawLine.s, 3))
        /\ parsed.value.raw = rawLine.s
        /\ parsed.value.source.context.agentId = Field(rawLine.s, 4)
        /\ parsed.value.source.context.sessionId = Field(rawLine.s, 5)

\* parse has returned a line for an input whose ENTITY_ID field is empty and
\* whose details hold a '|'
C2_Witness ==
    /\ ParseCalled
    /\ ~parsed.thrown
    /\ parsed.value.kind = "line"
    /\ NumFields(rawLine.s) > 6
    /\ Field(rawLine.s, 3) = <<>>

-----------------------------------------------------------------------------
(* The registry, stated on the history of its register calls.              *)

\* the types registered in `log`, each once, in the order of their first
\* registration
RECURSIVE TypesInOrder(_)
TypesInOrder(log) ==
    IF log = <<>> THEN <<>>
    ELSE LET before == TypesInOrder(SubSeq(log, 1, Len(log) - 1))
             type == log[Len(log)].type
         IN  IF \E i \in DOMAIN before : before[i] = type THEN before
             ELSE Append(before, type)

\* the adapter registered last under `type`
NewestOf(log, type) ==
    log[CHOOSE i \in DOMAIN log :
            /\ log[i].type = type
            /\ \A j \in DOMAIN log : log[j].type = type => j <= i]

\* the adapters in force after the register calls of `log`, in trial order
InForce(log) ==
    [i \in DOMAIN TypesInOrder(log) |-> NewestOf(log, TypesInOrder(log)[i])]

\* the register calls that preceded the last registry.parse call
LogAtCall == SubSeq(regLog, 1, regCall.at)

RegistryParseCalled == regCall.result # NotCalled

IsLine(r) == ~r.thrown /\ r.value.kind = "line"

\* C3: after any sequence of register calls, registry.parse(line) tries the
\* adapters in registration order (the order in which their types were first
\* registered) and returns the result of the first one whose parse is not
\* null; it returns null when no registered adapter matches or the registry
\* is empty.
C3_FirstMatchInOrder ==
    RegistryParseCalled =>
        LET order == InForce(LogAtCall)
            res == [i \in DOMAIN order |-> AdapterParse(order[i], regCall.line)]
        IN  /\ \A i \in DOMAIN order :
                  IsLine(res[i]) /\ (\A j \in 1..(i - 1) : res[j] = Returned(NULL))
                      => /\ regCall.result = res[i]
                         /\ regCall.invoked = [j \in 1..i |-> order[j].name]
            /\ (\A i \in DOMAIN order : res[i] = Returned(NULL))
                  => /\ regCall.result = Returned(NULL)
                     /\ regCall.invoked = [j \in DOMAIN order |-> order[j].name]

\* registry.parse has returned the line of the second of three adapters, after
\* the first returned null, and the third, never tried, accepts the line too
C3_Witness ==
    /\ RegistryParseCalled
    /\ regCall.at = Len(regLog)
    /\ Len(adapters) = 3
    /\ Len(regCall.invoked) = 2
    /\ IsLine(regCall.result)
    /\ IsLine(AdapterParse(adapters[3], regCall.line))

AdapterNamed(name) == CHOOSE a \in SourceAdapters : a.name = name

\* C4: registering an adapter under a type already registered replaces the
\* earlier one for all later calls: get(type) returns the newest adapter,
\* registry.parse invokes no replaced adapter, and types() lists each type
\* once, as many entries as distinct types were ever registered.
C4_ReregisterReplaces ==
    /\ \A i \in DOMAIN regLog :
          RegistryGet(adapters, regLog[i].type)
              = NewestOf(regLog, regLog[i].type)
    /\ \A k \in DOMAIN regCall.invoked :
          LET a == AdapterNamed(regCall.invoked[k])
          IN  a = NewestOf(LogAtCall, a.type)
    /\ \A i, j \in DOMAIN adapters :
          RegistryTypes(adapters)[i] = RegistryTypes(adapters)[j] => i = j
    /\ Len(RegistryTypes(adapters))
          = Cardinality({regLog[i].type : i \in DOMAIN regLog})

\* alpha1 was registered and then replaced by alpha2, and a later
\* registry.parse of a line both accept returned alpha2's line
C4_Witness ==
    /\ \E i, j \in DOMAIN regLog :
          i < j /\ regLog[i].name = "alpha1" /\ regLog[j].name = "alpha2"
                /\ j <= regCall.at
    /\ regCall.invoked = <<"alpha2">>
    /\ IsLine(regCall.result)
    /\ IsLine(AdapterParse(AdapterNamed("alpha1"), regCall.line))

-----------------------------------------------------------------------------
(* interpret, stated on the call in flight or just returned.               *)

\* interpret has resumed after line.handleQuery settled
Resumed == task.pc \in {"fallback", "returned"}

\* the configuration in force when interpret resumed has a fallback to call
FallbackAvailable == task.cfg.enabled /\ task.cfg.handler # "undefined"

\* line.handleQuery returned (did not reject) with handled = false
Unhandled == ~task.hq.thrown /\ task.hq.value.handled = FALSE

\* C5: during interpret(line, input) the fallback handler is invoked if and
\* only if the current fallback configuration has enabled = true and a
\* handler and line.handleQuery(input) returned handled = false; it is then
\* called exactly once for that interpret call, with the original input as
\* its query argument, and never before handleQuery has settled.
C5_FallbackIffUnhandledAndEnabled ==
    /\ ~Resumed => task.fb = <<>>
    /\ Resumed =>
          /\ Len(task.fb) = (IF FallbackAvailable /\ Unhandled THEN 1 ELSE 0)
          /\ \A i \in DOMAIN task.fb :
                /\ task.fb[i].query = task.input
                /\ task.fb[i].handler = task.cfg.handler

\* interpret has returned after its one call of the handler failed: no retry
C5_Witness ==
    /\ task.pc = "returned"
    /\ Len(task.fb) = 1
    /\ ~task.outcome.ok
    /\ task.input = <<" ", "S", "H", "O", "W", " ", " ", "M", "e", " ">>

\* C6: interpret returns the result of line.handleQuery(input) itself,
\* unchanged, whenever that result has handled = true (whatever the fallback
\* configuration) and whenever it has handled = false and the fallback is
\* disabled or has no handler.
C6_ResultPassedThrough ==
    /\ task.pc = "returned"
    /\ ~task.hq.thrown
    /\ task.hq.value.handled \/ ~FallbackAvailable
    => task.result = task.hq

\* interpret has returned the unknown-command result of a beads line, error
\* included, under a configuration that is enabled but has no handler
C6_Witness ==
    /\ task.pc = "returned"
    /\ Unhandled
    /\ "error" \in DOMAIN task.hq.value
    /\ task.cfg.enabled
    /\ task.cfg.handler = "undefined"
    /\ task.result = task.hq
    /\ line.source.type = <<"b", "e", "a", "d", "s">>

\* C7: when interpret has invoked the fallback handler: if the handler
\* resolved with the string r, interpret returns {handled: true, content: r};
\* if it threw or rejected with an error of message m, interpret does not
\* throw and returns {handled: false, content: '', error: 'Claude fallback
\* failed: ' + m}.
C7_FallbackOutcome ==
    task.pc = "returned" /\ task.fb # <<>> =>
        /\ ~task.result.thrown
        /\ task.outcome.ok =>
              task.result.value = [handled |-> TRUE,
                                   content |-> task.outcome.response]
        /\ ~task.outcome.ok /\ task.outcome.message.t = "string" =>
              task.result.value =
                  [handled |-> FALSE,
                   content |-> <<>>,
                   error |-> <<"C", "l", "a", "u", "d", "e", " ", "f", "a",
                               "l", "l", "b", "a", "c", "k", " ", "f", "a",
                               "i", "l", "e", "d", ":", " ">>
                                 \o task.outcome.message.s]

\* interpret has returned after the handler rejected with an Error
C7_Witness ==
    /\ task.pc = "returned"
    /\ task.fb # <<>>
    /\ ~task.outcome.ok
    /\ task.outcome.message = JsString(<<"A", "P", "I", " ", "e", "r", "r",
          "o", "r">>)

\* C8: interpret never mutates line.source: for a line produced by
\* BeadsAdapter.parse, type, id and every context entry are the same before
\* and after any sequence of interpret calls with any inputs.
C8_SourceUnchanged ==
    line # NoLine => line.source = source0

\* the category command of a beads line has run with a parameter and
\* interpret has returned its result
C8_Witness ==
    /\ task.pc = "returned"
    /\ line.source.type = <<"b", "e", "a", "d", "s">>
    /\ task.matched = <<"c", "a", "t", "e", "g", "o", "r", "y">>
    /\ task.input = <<"C", "a", "t", " ", "B", "D", "\t", "x">>
    /\ task.result.value.handled

-----------------------------------------------------------------------------
(* parseCommand, stated on the input.                                      *)

NonWhiteSpace(s) == {i \in DOMAIN s : s[i] \notin WhiteSpace}

\* s without its leading and trailing white space
Trimmed(s) ==
    IF NonWhiteSpace(s) = {} THEN <<>>
    ELSE SubSeq(s, CHOOSE i \in NonWhiteSpace(s) :
                       \A j \in NonWhiteSpace(s) : i <= j,
                   CHOOSE i \in NonWhiteSpace(s) :
                       \A j \in NonWhiteSpace(s) : j <= i)

\* the length of the leading white-space-delimited token of s
TokenLen(s) ==
    IF \A i \in DOMAIN s : s[i] \notin WhiteSpace THEN Len(s)
    ELSE (CHOOSE i \in DOMAIN s :
              s[i] \in WhiteSpace /\ \A j \in 1..(i - 1) : s[j] \notin WhiteSpace)
         - 1

LeadingToken(s) == SubSeq(s, 1, TokenLen(s))

Remainder(s) == Trimmed(SubSeq(s, TokenLen(s) + 1, Len(s)))

\* s has the form of a command: its leading token is made of word characters
\* [A-Za-z0-9_] only, and what follows the token holds no line break after
\* its first character that is not white space
CommandForm(s) ==
    /\ s # <<>>
    /\ \A i \in 1..TokenLen(s) : s[i] \in WordChars
    /\ \A i \in DOMAIN Remainder(s) : Remainder(s)[i] \notin LineTerminators

ParseCommandCalled == cmdResult # NotCalled

\* C9 as stated: parseCommand(input) returns null if and only if input.trim()
\* is the empty string.
C9_NullIffBlank ==
    ParseCommandCalled =>
        (cmdResult.value = NULL <=> Trimmed(cmdInput) = <<>>)

\* C9 as amended: parseCommand(input) returns null if and only if input.trim()
\* has not the form of a command; the empty string has not.
C9_NullIffNoCommandForm ==
    ParseCommandCalled =>
        /\ cmdResult.value = NULL <=> ~CommandForm(Trimmed(cmdInput))
        /\ Trimmed(cmdInput) = <<>> => cmdResult.value = NULL

\* parseCommand has returned null for an input that is not blank
C9_Witness ==
    /\ ParseCommandCalled
    /\ cmdResult.value = NULL
    /\ Trimmed(cmdInput) # <<>>

\* what C10 says parseCommand returns
ExpectedCommand(input) ==
    [kind |-> "command",
     command |-> ToLowerCase(LeadingToken(Trimmed(input))),
     params |-> Remainder(Trimmed(input))]

\* C10 as stated: for input that is not empty after trimming, parseCommand
\* returns command = the leading white-space-delimited token lower-cased and
\* params = the remainder of the input trimmed, case and inner spacing kept,
\* or the empty string when there is no remainder.
C10_TokenAndRemainder ==
    ParseCommandCalled /\ Trimmed(cmdInput) # <<>> =>
        cmdResult.value = ExpectedCommand(cmdInput)

\* C10 as amended: the same, for input whose trimmed form has the form of a
\* command.
C10_TokenAndRemainderOfCommandForm ==
    ParseCommandCalled /\ CommandForm(Trimmed(cmdInput)) =>
        cmdResult.value = ExpectedCommand(cmdInput)

\* parseCommand has lower-cased the command and kept the case and the inner
\* white space of the parameters
C10_Witness ==
    /\ ParseCommandCalled
    /\ cmdResult.value # NULL
    /\ cmdResult.value.command = <<"s">>
    /\ cmdInput = <<"S", " ", "S", " ", "S">>
    /\ cmdResult.value.params = <<"S", " ", "S">>

-----------------------------------------------------------------------------
(* isNaturalLanguage, stated on the input.                                 *)

IsNaturalLanguageCalled == nlResult # NotCalled

\* the trimmed input, compared without regard to case
Folded(input) == ToLowerCase(Trimmed(input))

InterrogativeWords ==
    {<<"w", "h", "a", "t">>, <<"w", "h", "y">>, <<"h", "o", "w">>, <<"w", "h",
          "e", "n">>, <<"w", "h", "e", "r", "e">>, <<"w", "h", "o">>,
     <<"c", "a", "n">>, <<"c", "o", "u", "l", "d">>, <<"w", "o", "u", "l",
           "d">>, <<"s", "h", "o", "u", "l", "d">>, <<"i", "s">>, <<"a", "r",
           "e">>}

PhrasePrefixes == {<<"t", "e", "l", "l", " ", "m", "e">>, <<"e", "x", "p",
      "l", "a", "i", "n">>, <<"d", "e", "s", "c", "r", "i", "b", "e">>}

EndsWithQuestionMark(s) == s # <<>> /\ s[Len(s)] = "?"

\* C11 as stated: isNaturalLanguage(input) is true for every input whose
\* trimmed form, compared case-insensitively, starts with one of what, why,
\* how, when, where, who, can, could, would, should, is, are, 'tell me',
\* 'explain', 'describe', or ends with '?', and is false for every other
\* input.
C11_PrefixOrQuestionMark ==
    IsNaturalLanguageCalled =>
        nlResult.value.b =
            (\/ \E w \in InterrogativeWords \cup PhrasePrefixes :
                   StartsWith(Folded(nlInput), w)
             \/ EndsWithQuestionMark(Folded(nlInput)))

\* C11 as amended: isNaturalLanguage(input) is true exactly when the trimmed
\* input, compared case-insensitively, has one of the twelve words as its
\* first white-space-delimited token with more text after it, or has 'tell'
\* as its first token and a next token that begins with 'me', or starts with
\* 'explain' or 'describe', or ends with '?'.
C11_WordThenSpaceOrQuestionMark ==
    IsNaturalLanguageCalled =>
        nlResult.value.b =
            (\/ /\ LeadingToken(Folded(nlInput)) \in InterrogativeWords
                /\ Remainder(Folded(nlInput)) # <<>>
             \/ /\ LeadingToken(Folded(nlInput)) = <<"t", "e", "l", "l">>
                /\ StartsWith(Remainder(Folded(nlInput)), <<"m", "e">>)
             \/ StartsWith(Folded(nlInput), <<"e", "x", "p", "l", "a", "i",
                   "n">>)
             \/ StartsWith(Folded(nlInput), <<"d", "e", "s", "c", "r", "i",
                   "b", "e">>)
             \/ EndsWithQuestionMark(Folded(nlInput)))

\* isNaturalLanguage has returned true for 'tell me' written in upper case
\* with a line break between the words, and false for a lone pattern word
C11_Witness ==
    /\ IsNaturalLanguageCalled
    /\ nlInput = <<" ", "T", "E", "L", "L", "\n", "M", "E", " ", "x">>
    /\ nlResult.value.b = TRUE

-----------------------------------------------------------------------------
(* handleQuery of a beads line, stated on the query in flight or just      *)
(* answered.                                                               *)

\* a query was put to a line parsed by BeadsAdapter
BeadsQuery ==
    /\ line # NoLine
    /\ line.source.type = BEADS
    /\ task.pc # "idle"

\* the first white-space-delimited token of the query, trimmed and lower-cased
QueryToken == LeadingToken(Folded(task.input))

\* the positions in the line's command list of the commands that have the
\* token as their name or as one of their aliases
CommandsAccepting(token) ==
    {i \in DOMAIN line.availableCommands :
        token \in {line.availableCommands[i].name}
                      \cup Range(line.availableCommands[i].aliases)}

FirstOf(positions) == CHOOSE i \in positions : \A j \in positions : i <= j

\* C12: for a line parsed by BeadsAdapter, handleQuery(input) whose first
\* token (after trim and lowercase) equals no command name and no alias
\* returns exactly {handled: false, content: '', error: 'Unknown command:
\* <token>. Try: show, related, deps, category, session, before, after'} and
\* invokes no handler and no external process.
C12_UnknownCommandResult ==
    BeadsQuery /\ CommandsAccepting(QueryToken) = {} =>
        /\ task.hq = Returned(
               [handled |-> FALSE,
                content |-> <<>>,
                error |->
                    <<"U", "n", "k", "n", "o", "w", "n", " ", "c", "o", "m",
                      "m", "a", "n", "d", ":", " ">> \o QueryToken \o <<".",
                            " ", "T", "r", "y", ":", " ">> \o
                    <<"s", "h", "o", "w", ",", " ", "r", "e", "l", "a", "t",
                      "e", "d", ",", " ", "d", "e", "p", "s", ",", " ", "c",
                      "a", "t", "e", "g", "o", "r", "y", ",", " ", "s", "e",
                      "s", "s", "i", "o", "n", ",", " ", "b", "e", "f", "o",
                      "r", "e", ",", " ", "a", "f", "t", "e", "r">>])
        /\ task.matched = <<>>
        /\ task.execs = <<>>

\* handleQuery has answered 'unknowncmd' on a beads line
C12_Witness ==
    /\ BeadsQuery
    /\ task.input = <<"u", "n", "k", "n", "o", "w", "n", "c", "m", "d">>
    /\ ~task.hq.thrown
    /\ task.hq.value.handled = FALSE

\* C13: for a line parsed by BeadsAdapter, handleQuery matches the first
\* white-space-delimited token of the input case-insensitively and exactly
\* against each command's name and aliases and runs the handler of the first
\* command in list order that matches, and no handler when none matches;
\* one handler runs per matched query and it starts at most one process.
C13_FirstExactMatchRuns ==
    BeadsQuery =>
        /\ task.matched =
              IF CommandsAccepting(QueryToken) = {} THEN <<>>
              ELSE line.availableCommands[
                       FirstOf(CommandsAccepting(QueryToken))].name
        /\ Len(task.execs) <= 1

\* the alias 'cat', written 'Cat', has run the handler of category
C13_Witness ==
    /\ BeadsQuery
    /\ task.input = <<"C", "a", "t", " ", "B", "D", "\t", "x">>
    /\ task.matched = <<"c", "a", "t", "e", "g", "o", "r", "y">>
    /\ Len(task.execs) = 1

\* C14: in the command text protocol the remainder of the input after the
\* first white-space-delimited token is passed verbatim to the matched
\* command's handler as its parameter string: same characters, same case.
C14_ParamsVerbatim ==
    BeadsQuery /\ task.matched # <<>> =>
        task.params = Remainder(Trimmed(task.input))

\* handleQuery has settled
Answered == task.hq # Pending

\* the text runBdCommand is to hand back for the way the process ended: its
\* output trimmed, or the error text (stderr, else the message, else a fixed
\* text)
ProcessText(outcome) ==
    IF outcome.ok THEN Trimmed(outcome.stdout)
    ELSE IF outcome.stderr # <<>> THEN outcome.stderr
    ELSE IF outcome.message # <<>> THEN outcome.message
    ELSE <<"C", "o", "m", "m", "a", "n", "d", " ", "f", "a", "i", "l", "e",
           "d">>

\* C15: every command handler of a BeadsAdapter line catches failure of the
\* external process: whether the process succeeds or fails the handler
\* resolves, never rejects, with handled = true and the process output or the
\* error text as content; so handleQuery of such a line returns handled =
\* false only when no command matched.
C15_HandlersNeverReject ==
    BeadsQuery /\ Answered =>
        /\ ~task.hq.thrown
        /\ task.hq.value.handled <=> task.matched # <<>>
        /\ task.execs # <<>> =>
              task.hq.value = [handled |-> TRUE,
                               content |-> ProcessText(task.exec)]

\* the process started by a handler has failed without stderr and the handler
\* has resolved
C15_Witness ==
    /\ BeadsQuery
    /\ Answered
    /\ task.execs # <<>>
    /\ ~task.exec.ok
    /\ task.exec.stderr = <<>>
    /\ task.hq.value.handled

\* C16: for a BeadsAdapter line whose ENTITY_ID is the 'none' sentinel (the
\* field empty or literally 'none') the show and deps commands return handled
\* = true with an informational 'No issue associated' message and never
\* invoke the external process.
C16_NoIssueShortCircuit ==
    /\ BeadsQuery
    /\ Field(line.raw, 3) \in {<<>>, <<"n", "o", "n", "e">>}
    /\ task.matched \in {<<"s", "h", "o", "w">>, <<"d", "e", "p", "s">>}
    => /\ Answered
       /\ ~task.hq.thrown
       /\ task.hq.value.handled
       /\ StartsWith(task.hq.value.content, <<"N", "o", " ", "i", "s", "s",
             "u", "e", " ", "a", "s", "s", "o", "c", "i", "a", "t", "e",
             "d">>)
       /\ task.execs = <<>>

\* deps was asked of a line whose ENTITY_ID field reads none
C16_Witness ==
    /\ BeadsQuery
    /\ Field(line.raw, 3) = <<"n", "o", "n", "e">>
    /\ task.matched = <<"d", "e", "p", "s">>
    /\ task.execs = <<>>
    /\ Answered

-----------------------------------------------------------------------------
(* The fallback configuration, stated on the history of configure calls.   *)

\* C17: the fallback configuration starts as {enabled: false}; each
\* configureClaudeFallback call replaces it entirely, so after any sequence
\* of calls the configuration equals the argument of the last call with
\* nothing merged from earlier ones: after a last {enabled: true} without a
\* handler there is no handler to invoke, and after a last {enabled: false}
\* with a handler interpret does not invoke it.
C17_LastConfigurationWins ==
    /\ fallbackConfig =
          IF configArg = [kind |-> "none"]
          THEN [enabled |-> FALSE, handler |-> "undefined"]
          ELSE configArg
    /\ task.pc = "fallback" /\ task.outcome = [kind |-> "none"] =>
          /\ task.cfg.enabled
          /\ task.fb[1].handler = task.cfg.handler
          /\ task.cfg.handler # "undefined"

\* the host has last passed {enabled: true} without a handler, and an
\* unhandled query was returned without a call of any handler
C17_Witness ==
    /\ configArg = [enabled |-> TRUE, handler |-> "undefined"]
    /\ task.pc = "returned"
    /\ task.cfg = configArg
    /\ Unhandled
    /\ task.fb = <<>>

-----------------------------------------------------------------------------
(* The registry and adapters that throw.                                   *)

-----------------------------------------------------------------------------
(* The aliases of the README's commands table.                             *)

DocumentedAliases ==
    {[alias |-> <<"d", "e", "t", "a", "i", "l", "s">>, command |-> <<"s", "h",
          "o", "w">>],
     [alias |-> <<"i", "n", "f", "o">>, command |-> <<"s", "h", "o", "w">>],
     [alias |-> <<"d", "e", "p", "e", "n", "d", "e", "n", "c", "i", "e",
                  "s">>, command |-> <<"d", "e", "p", "s">>],
     [alias |-> <<"b", "l", "o", "c", "k", "s">>, command |-> <<"d", "e", "p",
           "s">>],
     [alias |-> <<"r", "e", "l">>, command |-> <<"r", "e", "l", "a", "t", "e",
           "d">>],
     [alias |-> <<"c", "a", "t">>, command |-> <<"c", "a", "t", "e", "g", "o",
           "r", "y">>],
     [alias |-> <<"t", "y", "p", "e">>, command |-> <<"c", "a", "t", "e", "g",
           "o", "r", "y">>],
     [alias |-> <<"s", "e", "s", "s">>, command |-> <<"s", "e", "s", "s", "i",
           "o", "n">>]}

\* C19: the documented command aliases are accepted on a BeadsAdapter line:
\* 'details' and 'info' run show, 'dependencies' and 'blocks' run deps, 'rel'
\* runs related, 'cat' and 'type' run category, and 'sess' runs session, each
\* returning handled = true.
C19_DocumentedAliasesAccepted ==
    \A d \in DocumentedAliases :
        BeadsQuery /\ QueryToken = d.alias =>
            /\ task.matched = d.command
            /\ Answered => ~task.hq.thrown /\ task.hq.value.handled

-----------------------------------------------------------------------------
(* isNaturalLanguage and the state of the process.                         *)

-----------------------------------------------------------------------------
(* interpret and a configuration that changes while it is in flight.       *)

\* C21: interpret reads the process-wide fallback configuration only after
\* line.handleQuery has settled: when configureClaudeFallback is called while
\* handleQuery of an in-flight interpret is pending, that interpret uses the
\* new configuration, not the one in force when it was called; and the
\* handler it found in the configuration is the handler it calls, whatever is
\* configured afterwards.
C21_ConfigurationReadAfterHandleQuery ==
    Resumed /\ Unhandled =>
        /\ task.fb # <<>> <=> task.cfg.enabled /\ task.cfg.handler # "undefined"
        /\ task.fb # <<>> => task.fb[1].handler = task.cfg.handler

\* the fallback was disabled when interpret was called and enabled with h1
\* while handleQuery was pending; h1 was called, and while it is pending the
\* host has configured h2
C21_Witness ==
    /\ task.pc = "fallback"
    /\ ~task.cfg0.enabled
    /\ task.cfg = [enabled |-> TRUE, handler |-> "h1"]
    /\ task.fb # <<>>
    /\ task.fb[1].handler = "h1"
    /\ fallbackConfig = [enabled |-> TRUE, handler |-> "h2"]

-----------------------------------------------------------------------------
(* The panel as the caller of interpret.                                    *)

QueryResultsPosted == {i \in DOMAIN posted : posted[i].type = "queryResult"}

\* C22: the panel serializes interaction per line: no two interpret calls are
\* pending on the same line at once, and the queryResult messages are posted
\* in the order in which the queries were received.
C22_PanelSerializesPerLine ==
    /\ \A a, b \in inFlight : a.lineId = b.lineId => a = b
    /\ \A i, j \in QueryResultsPosted :
           i < j => posted[i].of < posted[j].of

-----------------------------------------------------------------------------
(* Lines parsed side by side.                                               *)

\* the part of s before its first '.'
BeforeFirstDot(s) ==
    IF \A i \in DOMAIN s : s[i] # "." THEN s
    ELSE SubSeq(s, 1, (CHOOSE i \in DOMAIN s :
                          s[i] = "." /\ \A j \in 1..(i - 1) : s[j] # ".") - 1)

\* the bd command each of the queries stands for on a line of this raw text,
\* all of whose fields are filled
OwnCommand(raw, input) ==
    CASE input = <<"s", "h", "o", "w">> ->
            <<"s", "h", "o", "w", " ">> \o Field(raw, 3)
      [] input = <<"s", "e", "s", "s", "i", "o", "n">> ->
            <<"l", "o", "g", " ", "-", "-", "s", "e", "s", "s", "i", "o",
              "n", " ">> \o Field(raw, 5)
      [] input = <<"b", "e", "f", "o", "r", "e">> ->
            <<"l", "o", "g", " ", "-", "-", "u", "n", "t", "i", "l", " ">>
                  \o Field(raw, 1)
                \o <<" ", "-", "-", "l", "a", "s", "t", " ", "2", "0">>
      [] input = <<"c", "a", "t", "e", "g", "o", "r", "y">> ->
            <<"l", "o", "g", " ", "-", "-", "c", "a", "t", "e", "g", "o",
              "r", "y", " ">>
                \o BeforeFirstDot(Field(raw, 2))
                \o <<" ", "-", "-", "l", "a", "s", "t", " ", "3", "0">>

\* C23: every parse builds a new command list bound to that line's own
\* context: no two held lines share a command list, and a command run on a
\* line starts the bd command of that line's own issue id, session id, event
\* code and timestamp, whatever was parsed or queried before.
C23_CommandsBoundToOwnLine ==
    /\ \A i, j \in DOMAIN held :
           i # j => held[i].availableCommands # held[j].availableCommands
    /\ \A k \in DOMAIN runs :
           /\ runs[k].run.exec
           /\ runs[k].run.args = OwnCommand(held[runs[k].line].raw,
                 runs[k].input)

\* two lines of different text are held, the second was queried first and then
\* the first, each for its issue
C23_Witness ==
    /\ Len(held) = 2
    /\ held[1].raw = VALID_LINE
    /\ held[2].raw # VALID_LINE
    /\ Len(runs) = 2
    /\ runs[1].line = 2 /\ runs[1].run.args = <<"s", "h", "o", "w", " ", "b",
          "d", "-", "2">>
    /\ runs[2].line = 1 /\ runs[2].run.args = <<"s", "h", "o", "w", " ", "b",
          "d", "-", "1">>

-----------------------------------------------------------------------------
(* DETAILS and the delimiter.                                               *)

\* the six context fields written one after the other with '|' between them
Rejoined(context) ==
    context.timestamp \o <<"|">> \o context.eventCode \o <<"|">>
        \o context.issueId \o <<"|">> \o context.agentId \o <<"|">>
        \o context.sessionId \o <<"|">> \o context.details

\* C24: DETAILS is the '|'-join of all fields after the fifth: for a
\* grammatical line of at least 6 fields with a non-empty ENTITY_ID, joining
\* timestamp, eventCode, issueId, agentId, sessionId and details of
\* source.context with '|' gives back the raw line; with exactly 5 fields
\* details is the empty string.
C24_DetailsRejoined ==
    ParseCalled /\ IsLine(parsed) =>
        LET context == parsed.value.source.context IN
        /\ NumFields(rawLine.s) >= 6 /\ Field(rawLine.s, 3) # <<>> =>
               Rejoined(context) = rawLine.s
        /\ NumFields(rawLine.s) = 5 => context.details = <<>>

\* a line of seven fields was parsed: its DETAILS holds a delimiter
C24_Witness ==
    /\ rawLine = JsString(<<"2", "0", "2", "5", "-", "0", "1", "-", "1",
                            "5", "T", "|", "b", "d", ".", "x", "|", "b",
                            "d", "-", "1", "|", "s", "t", "|", "s", "1",
                            "|", "k", "=", "v", "|", "k", "=", "v">>)
    /\ IsLine(parsed)
    /\ parsed.value.source.context.details = <<"k", "=", "v", "|", "k", "=",
          "v">>

-----------------------------------------------------------------------------
(* The default expansion of a beads line.                                   *)

GetDefaultExpansionCalled == expansion # NotCalled

\* the part of s after its first '.', for an s that has one
AfterFirstDot(s) ==
    SubSeq(s, Len(BeforeFirstDot(s)) + 2, Len(s))

\* the label the fixed table gives a prefix, 'Unknown' for any other prefix
LabelOf(prefix) ==
    IF \E i \in DOMAIN EventCategories : EventCategories[i].prefix = prefix
    THEN EventCategories[CHOOSE i \in DOMAIN EventCategories :
                            EventCategories[i].prefix = prefix].label
    ELSE <<"U", "n", "k", "n", "o", "w", "n">>

\* the raw text after the fifth '|', empty for a line of five fields
DetailsOf(s) ==
    IF NumFields(s) < 6 THEN <<>> ELSE SubSeq(s, NthBar(s, 5) + 1, Len(s))

\* **label:** text and a line feed when the condition holds, else nothing
LineWhen(cond, label, text) ==
    IF cond
    THEN <<"*", "*">> \o label \o <<":", "*", "*", " ">> \o text \o <<"\n">>
    ELSE <<>>

\* C25: getDefaultExpansion of a beads line renders the event code, the
\* category label (the table entry of the prefix before the first '.', or
\* 'Unknown' for any other prefix) and the action suffix; the Issue line is
\* there only when the entity id is neither empty nor 'none', the Agent,
\* Session and Details lines only when the field is non-empty; the suggestions
\* are exactly show, related, category, session.
C25_DefaultExpansionRendered ==
    GetDefaultExpansionCalled =>
        LET raw == rawLine.s
            code == Field(raw, 2)
            issue == Field(raw, 3)
        IN  /\ expansion.value.content =
                   LineWhen(TRUE, <<"E", "v", "e", "n", "t">>, code)
                   \o LineWhen(TRUE, <<"C", "a", "t", "e", "g", "o", "r",
                                       "y">>,
                               LabelOf(BeforeFirstDot(code)))
                   \o LineWhen(TRUE, <<"A", "c", "t", "i", "o", "n">>,
                         AfterFirstDot(code))
                   \o LineWhen(issue # <<>> /\ issue # <<"n", "o", "n", "e">>,
                               <<"I", "s", "s", "u", "e">>, issue)
                   \o LineWhen(Field(raw, 4) # <<>>,
                               <<"A", "g", "e", "n", "t">>, Field(raw, 4))
                   \o LineWhen(Field(raw, 5) # <<>>,
                               <<"S", "e", "s", "s", "i", "o", "n">>,
                                     Field(raw, 5))
                   \o LineWhen(DetailsOf(raw) # <<>>,
                               <<"D", "e", "t", "a", "i", "l", "s">>,
                                     DetailsOf(raw))
            /\ expansion.value.suggestions =
                   <<<<"s", "h", "o", "w">>, <<"r", "e", "l", "a", "t", "e",
                         "d">>,
                     <<"c", "a", "t", "e", "g", "o", "r", "y">>, <<"s", "e",
                           "s", "s", "i", "o", "n">>>>

-----------------------------------------------------------------------------
(* The context string of the fallback call.                                 *)

\* the positions at which sub occurs in s
Occurrences(s, sub) ==
    {i \in 1..(Len(s) - Len(sub) + 1) : SubSeq(s, i, i + Len(sub) - 1) = sub}

Contains(s, sub) == Occurrences(s, sub) # {}

FirstAt(s, sub) ==
    CHOOSE i \in Occurrences(s, sub) : \A j \in Occurrences(s, sub) : i <= j

\* the name of a context key as text
KeyText(k) ==
    CASE k = "timestamp" -> <<"t", "i", "m", "e", "s", "t", "a", "m", "p">>
      [] k = "eventCode" -> <<"e", "v", "e", "n", "t", "C", "o", "d", "e">>
      [] k = "issueId" -> <<"i", "s", "s", "u", "e", "I", "d">>
      [] k = "agentId" -> <<"a", "g", "e", "n", "t", "I", "d">>
      [] k = "sessionId" -> <<"s", "e", "s", "s", "i", "o", "n", "I", "d">>
      [] k = "details" -> <<"d", "e", "t", "a", "i", "l", "s">>
      [] k = "key" -> <<"k", "e", "y">>

\* name (description) of the i-th command of the line
CommandText(i) ==
    line.availableCommands[i].name \o <<" ", "(">>
        \o line.availableCommands[i].description \o <<")">>

\* the fallback handler has been called and has not settled
FallbackCalled == task.pc = "fallback" /\ task.fb # <<>>

\* C26: the context string handed to the fallback handler contains the line's
\* source.type, timestamp, message and source.id, one entry for every
\* source.context key whose value is non-empty and not 'none' and no entry
\* for the other keys, and the name and description of every command of
\* line.availableCommands in list order.
C26_FallbackContextString ==
    FallbackCalled =>
        LET c == task.fb[1].context
            context == line.source.context
        IN  /\ Contains(c, <<"-", " ", "T", "y", "p", "e", ":", " ">>
              \o line.source.type \o <<"\n">>)
            /\ Contains(c, <<"-", " ", "T", "i", "m", "e", "s", "t", "a",
                             "m", "p", ":", " ">> \o line.timestamp \o <<"\n">>)
            /\ Contains(c, <<"-", " ", "M", "e", "s", "s", "a", "g", "e",
                             ":", " ">> \o line.message \o <<"\n">>)
            /\ Contains(c, <<"-", " ", "I", "D", ":", " ">> \o line.source.id
                  \o <<"\n">>)
            /\ \A k \in DOMAIN context :
                  IF context[k] # <<>> /\ context[k] # <<"n", "o", "n", "e">>
                  THEN Contains(c, <<"-", " ">> \o KeyText(k) \o <<":", " ">>
                                       \o context[k] \o <<"\n">>)
                  ELSE ~Contains(c, <<"-", " ">> \o KeyText(k) \o <<":", " ">>)
            /\ \A i \in DOMAIN line.availableCommands :
                  Contains(c, CommandText(i))
            /\ \A i \in 1..(Len(line.availableCommands) - 1) :
                  FirstAt(c, CommandText(i)) < FirstAt(c, CommandText(i + 1))

\* the fallback was called for a question about a beads line whose issue id is
\* the literal none and whose agent id is empty
C26_Witness ==
    /\ FallbackCalled
    /\ line.source.type = BEADS
    /\ line.source.context.issueId = <<"n", "o", "n", "e">>
    /\ line.source.context.agentId = <<>>
    /\ line.source.context.sessionId = <<"s", "1">>
    /\ Contains(task.fb[1].context, <<"-", " ", "s", "e", "s", "s", "i",
                                      "o", "n", "I", "d", ":", " ", "s",
                                      "1">>)
    /\ task.input = <<"w", "h", "y", "?">>

-----------------------------------------------------------------------------
(* A handleQuery that fails.                                                *)

\* C27: if line.handleQuery(input) throws or rejects, interpret rejects with
\* that same error, does not call the fallback handler even when it is
\* enabled, and leaves the fallback configuration unchanged; an interpret
\* whose handleQuery did not fail never rejects (a failure of the fallback
\* handler is returned as a QueryResult).
C27_HandleQueryFailurePropagates ==
    /\ [](Resumed /\ task.hq.thrown =>
              /\ task.pc = "returned"
              /\ task.result = task.hq
              /\ task.fb = <<>>)
    /\ [](task.pc = "returned" /\ ~task.hq.thrown => ~task.result.thrown)
    /\ [][task' # task /\ task'.pc # "idle" /\ task'.hq.thrown =>
              fallbackConfig' = fallbackConfig]_vars

\* interpret rejected with the error of handleQuery while a fallback with a
\* handler was enabled
C27_Witness ==
    /\ task.pc = "returned"
    /\ task.hq = Thrown(<<"Q", "u", "e", "r", "y", " ", "e", "x", "p", "l",
                          "o", "s", "i", "o", "n">>)
    /\ task.result = task.hq
    /\ fallbackConfig = [enabled |-> TRUE, handler |-> "h1"]
    /\ task.cfg = fallbackConfig
    /\ task.fb = <<>>

-----------------------------------------------------------------------------
(* The place of a re-registered type in the trial order.                    *)

\* C28: re-registering a type keeps the type's original position in the trial
\* order: types() lists the types in the order of their first registration,
\* and after register(A), register(B), register(A') with A' of A's type,
\* registry.parse tries A' before B, so that a line both accept never reaches
\* B and is resolved by A' when A's type is the first in the order.
C28_ReregisterKeepsPosition ==
    /\ RegistryTypes(adapters) = TypesInOrder(regLog)
    /\ RegistryParseCalled =>
          \A i, j, k \in 1..regCall.at :
              /\ i < j /\ j < k
              /\ regLog[k].type = regLog[i].type
              /\ regLog[j].type # regLog[i].type
              /\ \A h \in 1..(i - 1) : regLog[h].type # regLog[j].type
              => LET a == NewestOf(LogAtCall, regLog[i].type)
                     b == NewestOf(LogAtCall, regLog[j].type)
                 IN  /\ IsLine(AdapterParse(a, regCall.line))
                     /\ IsLine(AdapterParse(b, regCall.line))
                     => /\ \A n \in DOMAIN regCall.invoked :
                               regCall.invoked[n] # b.name
                        /\ TypesInOrder(LogAtCall)[1] = a.type
                               => regCall.result
                                      = AdapterParse(a, regCall.line)

\* alpha1, beta and alpha2 were registered in this order, and the line all
\* three accept was parsed by alpha2 without beta being tried
C28_Witness ==
    /\ Len(regLog) = 3
    /\ regLog[1].name = "alpha1"
    /\ regLog[2].name = "beta"
    /\ regLog[3].name = "alpha2"
    /\ regCall.at = 3
    /\ regCall.line = JsString(<<"A", ":", "m">>)
    /\ regCall.invoked = <<"alpha2">>
    /\ IsLine(regCall.result)
    /\ regCall.result.value.source.context.prefix = <<"A">>

-----------------------------------------------------------------------------
(* What the watcher delivers, and the watchers it leaves open.              *)

\* C29: MultiProjectWatcher delivers the non-blank lines of a watched log file
\* once each and in file order, over any sequence of change events caused by
\* appends and truncations: no line is delivered a second time, and none
\* before a line written earlier.
C29_EachLineOnceInOrder ==
    \A i, j \in DOMAIN delivered : i < j => delivered[i] < delivered[j]

OpenWatchers == {w \in DOMAIN watchers : watchers[w].open}

\* C30: after stopAll no watcher the instance created remains open, whatever
\* watchProjects calls and file events came before, the creation of a log
\* file that was missing at first included; and at any time the project has
\* at most one open watcher.
C30_StopAllClosesEveryWatcher ==
    /\ Cardinality(OpenWatchers) <= 1
    /\ stopped => OpenWatchers = {}

====
